---- MODULE Spec2Model ----
(***************************************************************************)
(* Model of the TimeAnalysis dashboard (src/app.py, src/config/*.py).      *)
(*                                                                         *)
(* DataFrames are heap objects (tables) reached through references, so    *)
(* that `self.df = df` is an alias and not a copy.  Floating point values  *)
(* are exact rationals extended with NaN and the two infinities; amounts   *)
(* are integers.  A "YYYY-MM" label is the pair <<year, month>>: for the   *)
(* four-digit years a pandas Timestamp can hold, the lexicographic order   *)
(* of the strings is the lexicographic order of the pairs.                 *)
(***************************************************************************)
EXTENDS Integers, Sequences, FiniteSets, TLC

VARIABLES
    tables,           \* the heap of DataFrames: table id -> table
    uploaded,         \* the id of the caller's table (`df` of main)
    source,           \* the caller's table as it was loaded (history)
    config,           \* the process-wide Config object
    config_file,      \* config/config.yaml: Absent, or the YAML document it holds
    analyzers,        \* analyzer id -> TimeAnalyzer object, or None
    ret,              \* the latest call: method, receiver, faults, return value
    decompose_calls   \* calls of seasonal_decompose made by the latest call

vars == <<tables, uploaded, source, config, config_file, analyzers, ret, decompose_calls>>

(* Python's None, where the other values are records.                     *)
None == [none |-> TRUE]

----------------------------------------------------------------------------
(* Bounds of the model.                                                    *)

MaxRows == 2
MaxDays == 4
MaxMonths == 13
MaxCorrRows == 3
MaxMainMonths == 25
MaxPeakMonths == 6
MaxSeasonMonths == 26
MaxTrendMonths == 4
MaxShortSpan == 3

----------------------------------------------------------------------------
(* Program constants.                                                      *)

DefaultMinMonths == 12
DefaultThresholdWhole == 2
DefaultWindow == 7
MaWindowShort == 3
MaWindowLong == 6
TopPeakMonths == 5
DecomposePeriod == 12

----------------------------------------------------------------------------
(* Floating point values: exact rationals, NaN, +inf, -inf.                *)

Abs(x) == IF x < 0 THEN -x ELSE x

Sign(x) == IF x < 0 THEN -1 ELSE IF x = 0 THEN 0 ELSE 1

RECURSIVE Gcd(_, _)
Gcd(a, b) == IF b = 0 THEN a ELSE Gcd(b, a % b)

Num(n, d) ==
    LET g == Gcd(Abs(n), Abs(d))
        s == IF d < 0 THEN -1 ELSE 1
    IN [k |-> "num", n |-> (s * n) \div g, d |-> (s * d) \div g]

NaN == [k |-> "nan", n |-> 0, d |-> 1]

Inf(s) == [k |-> "inf", n |-> s, d |-> 1]

Zero == Num(0, 1)

IsNum(v) == v.k = "num"

IsNaN(v) == v.k = "nan"

IsInf(v) == v.k = "inf"

FSign(v) == IF IsNaN(v) THEN 0 ELSE Sign(v.n)

FNeg(v) == IF IsNum(v) THEN Num(-v.n, v.d) ELSE IF IsInf(v) THEN Inf(-v.n) ELSE NaN

FAdd(a, b) ==
    IF IsNaN(a) \/ IsNaN(b) THEN NaN
    ELSE IF IsInf(a) /\ IsInf(b) THEN (IF a.n = b.n THEN a ELSE NaN)
    ELSE IF IsInf(a) THEN a
    ELSE IF IsInf(b) THEN b
    ELSE Num(a.n * b.d + b.n * a.d, a.d * b.d)

FSub(a, b) == FAdd(a, FNeg(b))

FMul(a, b) ==
    IF IsNaN(a) \/ IsNaN(b) THEN NaN
    ELSE IF IsInf(a) \/ IsInf(b)
         THEN (IF FSign(a) * FSign(b) = 0 THEN NaN ELSE Inf(FSign(a) * FSign(b)))
    ELSE Num(a.n * b.n, a.d * b.d)

(* IEEE division: x/0 is an infinity of the sign of x, 0/0 is NaN.         *)
FDiv(a, b) ==
    IF IsNaN(a) \/ IsNaN(b) THEN NaN
    ELSE IF IsInf(a) THEN (IF IsInf(b) THEN NaN
                           ELSE Inf(a.n * (IF FSign(b) < 0 THEN -1 ELSE 1)))
    ELSE IF IsInf(b) THEN Zero
    ELSE IF b.n = 0 THEN (IF a.n = 0 THEN NaN ELSE Inf(Sign(a.n)))
    ELSE Num(a.n * b.d, a.d * b.n)

FAbs(v) == IF IsNum(v) THEN Num(Abs(v.n), v.d) ELSE IF IsInf(v) THEN Inf(1) ELSE NaN

(* a > b on floats: every comparison with NaN is false.                    *)
FGt(a, b) ==
    IF IsNaN(a) \/ IsNaN(b) THEN FALSE
    ELSE IF IsInf(a) THEN a.n = 1 /\ ~(IsInf(b) /\ b.n = 1)
    ELSE IF IsInf(b) THEN b.n = -1
    ELSE a.n * b.d > b.n * a.d

FromInt(i) == Num(i, 1)

----------------------------------------------------------------------------
(* Sequences.                                                              *)

(* Sums by halves, so that a year of daily rows is summed at a depth of   *)
(* ten calls.                                                              *)
RECURSIVE SeqSum(_)
SeqSum(s) ==
    IF Len(s) = 0 THEN 0
    ELSE IF Len(s) = 1 THEN s[1]
    ELSE LET h == Len(s) \div 2
         IN SeqSum(SubSeq(s, 1, h)) + SeqSum(SubSeq(s, h + 1, Len(s)))

RECURSIVE FSeqSum(_)
FSeqSum(s) == IF s = <<>> THEN Zero ELSE FAdd(s[1], FSeqSum(Tail(s)))

Vals(series) == [i \in DOMAIN series |-> series[i].val]

Keys(series) == [i \in DOMAIN series |-> series[i].key]

LexLess(a, b) ==
    \E i \in DOMAIN a :
        /\ i \in DOMAIN b
        /\ a[i] < b[i]
        /\ \A j \in 1..(i - 1) : a[j] = b[j]

(* The elements of S in ascending order: the k-th is the one with k - 1   *)
(* elements below it.                                                      *)
SortedSeq(S) ==
    LET ranked == {<<Cardinality({y \in S : LexLess(y, x)}), x>> : x \in S}
    IN [k \in 1..Cardinality(S) |-> (CHOOSE p \in ranked : p[1] = k - 1)[2]]

----------------------------------------------------------------------------
(* Tables (DataFrames).                                                    *)

DateCol == "transaction_date"
SpendCol == "Total Spend ($)"
QtyCol == "Quantity Purchased"
LeadCol == "Lead Time (Days)"

RequiredColumns == {DateCol, SpendCol, QtyCol}

DerivedColumns == {"year", "month", "quarter", "month_year", "day_of_week"}

DayNames == <<"Sunday", "Monday", "Tuesday", "Wednesday", "Thursday", "Friday", "Saturday">>

(* Timestamp.day_name(): the weekday of a proleptic Gregorian date.        *)
DayName(date) ==
    LET y == IF date[2] < 3 THEN date[1] - 1 ELSE date[1]
        t == <<0, 3, 2, 5, 0, 3, 5, 1, 4, 6, 2, 4>>
        w == (y + (y \div 4) - (y \div 100) + (y \div 400) + t[date[2]] + date[3]) % 7
    IN DayNames[w + 1]

(* The order groupby('day_of_week') lists the names in: alphabetical.     *)
DayOrder == <<"Friday", "Monday", "Saturday", "Sunday", "Thursday", "Tuesday", "Wednesday">>

DayRank(name) == CHOOSE i \in DOMAIN DayOrder : DayOrder[i] = name

Quarter(month) == ((month - 1) \div 3) + 1

MkRow(date, spend, qty, lead) ==
    (DateCol :> date) @@ (SpendCol :> spend) @@ (QtyCol :> qty) @@ (LeadCol :> lead)

MkTable(rows, cols) ==
    [cols |-> cols,
     date_dtype |-> "object",
     rows |-> [i \in DOMAIN rows |-> [c \in cols |-> rows[i][c]]]]

----------------------------------------------------------------------------
(* TimeAnalyzer.prepare_data: the derived columns of one row.              *)

Decorate(row) ==
    LET date == row[DateCol]
    IN row @@ ("year" :> date[1]) @@ ("month" :> date[2])
           @@ ("quarter" :> Quarter(date[2]))
           @@ ("month_year" :> <<date[1], date[2]>>)
           @@ ("day_of_week" :> DayName(date))

(* `self.df[...] = ...` of __init__ and prepare_data, applied to the table *)
(* object self.df refers to.                                               *)
PrepareData(table) ==
    [cols |-> table.cols \cup DerivedColumns,
     date_dtype |-> "datetime64",
     rows |-> [i \in DOMAIN table.rows |-> Decorate(table.rows[i])]]

----------------------------------------------------------------------------
(* groupby(...)[col].sum() / .size() / .mean(): a series sorted by key.    *)

KeyOf(row, by) ==
    CASE by = "year" -> <<row["year"]>>
      [] by = "year_quarter" -> <<row["year"], row["quarter"]>>
      [] by = "month_year" -> row["month_year"]
      [] by = DateCol -> row[DateCol]
      [] by = "day_of_week" -> <<DayRank(row["day_of_week"])>>

(* Variant: groupby(sort=False), the keys in the order they first appear.   *)
GroupKeysUnsorted(rows, by) ==
    LET first == [i \in DOMAIN rows |->
                     \A j \in 1..(i - 1) : KeyOf(rows[j], by) # KeyOf(rows[i], by)]
        n == Cardinality({i \in DOMAIN rows : first[i]})
    IN [k \in 1..n |->
           KeyOf(rows[CHOOSE i \in DOMAIN rows :
                          first[i] /\ Cardinality({j \in 1..i : first[j]}) = k], by)]

(* groupby(by), sort=True: the distinct keys in ascending order.           *)

GroupKeys(rows, by) == SortedSeq({KeyOf(rows[i], by) : i \in DOMAIN rows})

SumWhere(rows, by, key, col) ==
    SeqSum([i \in DOMAIN rows |-> IF KeyOf(rows[i], by) = key THEN rows[i][col] ELSE 0])

CountWhere(rows, by, key) ==
    Cardinality({i \in DOMAIN rows : KeyOf(rows[i], by) = key})

GroupSum(rows, by, col) ==
    LET ks == GroupKeys(rows, by)
    IN [i \in DOMAIN ks |-> [key |-> ks[i], val |-> SumWhere(rows, by, ks[i], col)]]

GroupSize(rows, by) ==
    LET ks == GroupKeys(rows, by)
    IN [i \in DOMAIN ks |-> [key |-> ks[i], val |-> CountWhere(rows, by, ks[i])]]

GroupMean(rows, by, col) ==
    LET ks == GroupKeys(rows, by)
    IN [i \in DOMAIN ks |->
           [key |-> ks[i],
            val |-> Num(SumWhere(rows, by, ks[i], col), CountWhere(rows, by, ks[i]))]]

ToFloat(series) ==
    [i \in DOMAIN series |-> [key |-> series[i].key, val |-> FromInt(series[i].val)]]

----------------------------------------------------------------------------
(* Series.pct_change(): v[i] / v[i-1] - 1 after a forward fill of missing  *)
(* values; the first entry divides by the shifted-in NaN.                  *)

RECURSIVE FFill(_)
FFill(vs) ==
    IF Len(vs) <= 1 THEN vs
    ELSE LET init == FFill(SubSeq(vs, 1, Len(vs) - 1))
             last == vs[Len(vs)]
         IN Append(init, IF IsNaN(last) THEN init[Len(init)] ELSE last)

(* Variant: the first period's change filled with 0.                       *)
PctChangeValsZeroFirst(vs) ==
    LET f == FFill(vs)
    IN [i \in DOMAIN vs |->
           IF i = 1 THEN Zero ELSE FSub(FDiv(f[i], f[i - 1]), FromInt(1))]

PctChangeVals(vs) ==
    LET f == FFill(vs)
    IN [i \in DOMAIN vs |->
           IF i = 1 THEN NaN ELSE FSub(FDiv(f[i], f[i - 1]), FromInt(1))]

PctChange(series) ==
    LET p == PctChangeVals(Vals(series))
    IN [i \in DOMAIN series |-> [key |-> series[i].key, val |-> p[i]]]

Times100(series) ==
    [i \in DOMAIN series |->
        [key |-> series[i].key, val |-> FMul(series[i].val, FromInt(100))]]

(* Series.mean(): missing values are skipped; no value left gives NaN.     *)
DropNaN(vs) == SelectSeq(vs, LAMBDA v : ~IsNaN(v))

(* Variant: fillna(0) before the mean, missing values counted as zero.      *)
NanMeanZeroFilled(vs) ==
    IF vs = <<>> THEN NaN
    ELSE FDiv(FSeqSum([i \in DOMAIN vs |-> IF IsNaN(vs[i]) THEN Zero ELSE vs[i]]),
              FromInt(Len(vs)))

NanMean(vs) ==
    LET kept == DropNaN(vs)
    IN IF kept = <<>> THEN NaN ELSE FDiv(FSeqSum(kept), FromInt(Len(kept)))

(* Series.var(): sample variance (ddof = 1) of the values present.         *)
NanVar(vs) ==
    LET kept == DropNaN(vs)
        mean == NanMean(vs)
        sq == [j \in DOMAIN kept |-> FMul(FSub(kept[j], mean), FSub(kept[j], mean))]
    IN IF Len(kept) - 1 <= 0 THEN NaN ELSE FDiv(FSeqSum(sq), FromInt(Len(kept) - 1))

----------------------------------------------------------------------------
(* Series.rolling(window, min_periods): the trailing window ending at i.   *)

Window(vs, i, window) == SubSeq(vs, IF i - window + 1 < 1 THEN 1 ELSE i - window + 1, i)

RollingMeanAt(vs, i, window, min_periods) ==
    LET w == Window(vs, i, window)
    IN IF Len(w) < min_periods THEN NaN ELSE FDiv(FSeqSum(w), FromInt(Len(w)))

(* Variant: the population variance (ddof = 0).                            *)
RollingVarPopulationAt(vs, i, window, min_periods) ==
    LET w == Window(vs, i, window)
        n == Len(w)
        mean == FDiv(FSeqSum(w), FromInt(n))
        sq == [j \in DOMAIN w |-> FMul(FSub(w[j], mean), FSub(w[j], mean))]
    IN IF n < min_periods THEN NaN ELSE FDiv(FSeqSum(sq), FromInt(n))

(* Sample variance (ddof = 1) of the window; NaN for a single observation. *)
RollingVarAt(vs, i, window, min_periods) ==
    LET w == Window(vs, i, window)
        n == Len(w)
        mean == FDiv(FSeqSum(w), FromInt(n))
        sq == [j \in DOMAIN w |-> FMul(FSub(w[j], mean), FSub(w[j], mean))]
    IN IF n < min_periods \/ n - 1 <= 0 THEN NaN ELSE FDiv(FSeqSum(sq), FromInt(n - 1))

RollingMean(series, window, min_periods) ==
    LET vs == Vals(series)
    IN [i \in DOMAIN series |->
           [key |-> series[i].key, val |-> RollingMeanAt(vs, i, window, min_periods)]]

(* Variant: >= in place of >.                                              *)
MeetsThreshold(x, mean, threshold, var) ==
    LET dev == FAbs(FSub(x, mean))
        bound == FMul(FMul(threshold, threshold), var)
    IN IF IsNaN(dev) \/ IsNaN(var) \/ IsNaN(threshold) THEN FALSE
       ELSE FGt(FMul(dev, dev), bound) \/ FMul(dev, dev) = bound

(* abs(x - mean) > threshold * std, with std = sqrt(var) and std >= 0.     *)
ExceedsThreshold(x, mean, threshold, var) ==
    LET dev == FAbs(FSub(x, mean))
    IN IF IsNaN(dev) \/ IsNaN(var) \/ IsNaN(threshold) THEN FALSE
       ELSE IF FSign(threshold) < 0
            THEN FGt(dev, Zero) \/ FGt(var, Zero)
       ELSE FGt(FMul(dev, dev), FMul(FMul(threshold, threshold), var))

----------------------------------------------------------------------------
(* Configuration (config/settings.py).                                     *)

DefaultAnalysisSettings ==
    [min_months_for_seasonality |-> 12,
     moving_average_windows |-> <<3, 6>>,
     top_peak_months |-> 5,
     anomaly_detection_window |-> 7,
     anomaly_std_threshold |-> Num(2, 1),
     trend_significance_threshold |-> Num(5, 100),
     correlation_strength_threshold |-> Num(7, 10)]

DefaultVisualizationSettings ==
    [default_chart_height |-> 400,
     color_palette |-> <<"blue", "green", "red", "purple", "orange">>,
     chart_template |-> "plotly_white",
     heatmap_colorscale |-> "Viridis",
     show_chart_legends |-> TRUE,
     chart_animation |-> TRUE]

DefaultExportSettings ==
    [excel_sheet_names |->
         [yearly_growth |-> "Yearly Growth", monthly_growth |-> "Monthly Growth",
          seasonality |-> "Seasonal Analysis", dow_analysis |-> "Day of Week Analysis",
          anomalies |-> "Anomaly Detection"],
     default_filename_prefix |-> "time_analysis",
     export_formats |-> <<"excel", "csv", "json">>]

DefaultAppSettings ==
    [app_title |-> "Time Analysis Dashboard",
     app_icon |-> "U+1F4CA",
     sidebar_state |-> "expanded",
     layout |-> "wide",
     theme_base |-> "light",
     show_welcome_message |-> TRUE,
     show_sample_data |-> TRUE,
     enable_dark_mode |-> TRUE]

(* Config(): every section built by its default factory.                   *)
DefaultConfig ==
    [analysis |-> DefaultAnalysisSettings,
     visualization |-> DefaultVisualizationSettings,
     export |-> DefaultExportSettings,
     app |-> DefaultAppSettings]

Sections == DOMAIN DefaultConfig

MkConfig(min_months, window, threshold) ==
    [DefaultConfig EXCEPT
        !.analysis = [DefaultAnalysisSettings EXCEPT
                         !.min_months_for_seasonality = min_months,
                         !.anomaly_detection_window = window,
                         !.anomaly_std_threshold = threshold]]

----------------------------------------------------------------------------
(* config.yaml.  A YAML mapping is [map |-> f], f a function from its keys *)
(* to their nodes, a YAML sequence is [seq |-> nodes], and a scalar is     *)
(* [text |-> t, style |-> s]: the characters written and the way they are  *)
(* quoted.  The text of a number is [digits |-> i] or [decimal |-> x],     *)
(* any other text is [chars |-> c].  A key without a value and an empty    *)
(* document are None, and load as None.                                    *)

Absent == [absent |-> TRUE]

YamlMap(f) == [map |-> f]

IsYamlMap(v) == "map" \in DOMAIN v

(* The run-time type of every settings field: the declared one, which is  *)
(* also the type of every value the defaults and the editor widgets give.  *)
FieldKinds ==
    [analysis |->
         [min_months_for_seasonality |-> "int", moving_average_windows |-> "ints",
          top_peak_months |-> "int", anomaly_detection_window |-> "int",
          anomaly_std_threshold |-> "float", trend_significance_threshold |-> "float",
          correlation_strength_threshold |-> "float"],
     visualization |->
         [default_chart_height |-> "int", color_palette |-> "strs",
          chart_template |-> "str", heatmap_colorscale |-> "str",
          show_chart_legends |-> "bool", chart_animation |-> "bool"],
     export |->
         [excel_sheet_names |-> "strmap", default_filename_prefix |-> "str",
          export_formats |-> "strs"],
     app |->
         [app_title |-> "str", app_icon |-> "str", sidebar_state |-> "str",
          layout |-> "str", theme_base |-> "str", show_welcome_message |-> "bool",
          show_sample_data |-> "bool", enable_dark_mode |-> "bool"]]

(* The implicit resolver of the YAML reader: what an unquoted text is read *)
(* as.  The texts of numbers are listed for the strings the model uses.    *)
TrueWords == {"true", "True", "yes", "on"}
FalseWords == {"false", "False", "no", "off"}
NullWords == {"", "~", "null"}
IntTexts == [x \in {"12"} |-> 12]
FloatTexts == [x \in {"2.0"} |-> Num(2, 1)]

PlainReading(chars) ==
    IF chars \in TrueWords \cup FalseWords THEN "bool"
    ELSE IF chars \in NullWords THEN "null"
    ELSE IF chars \in DOMAIN IntTexts THEN "int"
    ELSE IF chars \in DOMAIN FloatTexts THEN "float"
    ELSE "str"

(* yaml.dump leaves allow_unicode off: a character outside ASCII is        *)
(* written as its escape, inside double quotes.                            *)
NonAscii(chars) == chars = "U+1F4CA"

Escape(chars) == IF chars = "U+1F4CA" THEN "\\U0001F4CA" ELSE chars

(* Variant: the escapes are left as they were written.                     *)
UnescapeNothing(text) == text

(* The reader's decoding of the escapes of a double-quoted scalar.         *)
Unescape(text) == IF text = "\\U0001F4CA" THEN "U+1F4CA" ELSE text

(* The style yaml.dump gives a str: plain only when the plain text would   *)
(* be read back as a str.                                                  *)
StrStyle(chars) ==
    IF NonAscii(chars) THEN "double"
    ELSE IF PlainReading(chars) # "str" THEN "single"
    ELSE "plain"

StrNode(chars) ==
    [text |-> [chars |-> IF NonAscii(chars) THEN Escape(chars) ELSE chars],
     style |-> StrStyle(chars)]

PlainNode(text) == [text |-> text, style |-> "plain"]

(* The node yaml.dump writes for a value, by the type of the value.        *)
Represent(kind, v) ==
    CASE kind = "int" -> PlainNode([digits |-> v])
      [] kind = "float" -> PlainNode([decimal |-> v])
      [] kind = "bool" -> PlainNode([chars |-> IF v THEN "true" ELSE "false"])
      [] kind = "str" -> StrNode(v)
      [] kind = "ints" -> [seq |-> [i \in DOMAIN v |-> PlainNode([digits |-> v[i]])]]
      [] kind = "strs" -> [seq |-> [i \in DOMAIN v |-> StrNode(v[i])]]
      [] kind = "strmap" -> YamlMap([k \in DOMAIN v |-> StrNode(v[k])])

RepresentSection(section, settings) ==
    [f \in DOMAIN settings |-> Represent(FieldKinds[section][f], settings[f])]

(* The value yaml.safe_load reads from a plain scalar.                     *)
ReadPlain(text) ==
    IF "digits" \in DOMAIN text THEN text.digits
    ELSE IF "decimal" \in DOMAIN text THEN text.decimal
    ELSE CASE text.chars \in TrueWords -> TRUE
           [] text.chars \in FalseWords -> FALSE
           [] text.chars \in NullWords -> None
           [] text.chars \in DOMAIN IntTexts -> IntTexts[text.chars]
           [] text.chars \in DOMAIN FloatTexts -> FloatTexts[text.chars]
           [] OTHER -> text.chars

ConstructScalar(node) ==
    CASE node.style = "plain" -> ReadPlain(node.text)
      [] node.style = "single" -> node.text.chars
      [] node.style = "double" -> Unescape(node.text.chars)

(* The value yaml.safe_load builds from the node of a field.               *)
Construct(node) ==
    IF "none" \in DOMAIN node THEN None
    ELSE IF "seq" \in DOMAIN node
    THEN [i \in DOMAIN node.seq |-> ConstructScalar(node.seq[i])]
    ELSE IF "map" \in DOMAIN node
    THEN [k \in DOMAIN node.map |-> ConstructScalar(node.map[k])]
    ELSE ConstructScalar(node)

(* The dict yaml.safe_load builds from the mapping d of a section.         *)
SectionValues(d) == [f \in DOMAIN d |-> Construct(d[f])]

(* save_to_yaml: a mapping of the four sections, each the mapping of the   *)
(* fields of the section object, written by yaml.dump.                     *)
SaveToYaml(cfg) ==
    YamlMap([s \in Sections |-> YamlMap(RepresentSection(s, cfg[s]))])

(* config_dict.get(section, {})                                            *)
SectionGet(doc, section) ==
    IF section \in DOMAIN doc.map THEN doc.map[section] ELSE YamlMap(<<>>)

(* AttributeError on an empty document (None.get), TypeError on a section  *)
(* that is None (unpacked as keyword arguments) or that holds a key the    *)
(* dataclass does not declare.                                             *)
LoadRaises(file) ==
    /\ file # Absent
    /\ \/ ~IsYamlMap(file)
       \/ \E s \in Sections :
              \/ ~IsYamlMap(SectionGet(file, s))
              \/ ~(DOMAIN SectionGet(file, s).map \subseteq DOMAIN DefaultConfig[s])

(* The section dataclass built from the mapping d: the fields given, the  *)
(* declared default for the others.                                        *)
SettingsFrom(section, d) ==
    [f \in DOMAIN DefaultConfig[section] |->
        IF f \in DOMAIN d THEN Construct(d[f]) ELSE DefaultConfig[section][f]]

Raised == [raised |-> TRUE]

(* Config.load_from_yaml                                                   *)
LoadFromYaml(file) ==
    IF file = Absent THEN DefaultConfig
    ELSE IF LoadRaises(file) THEN Raised
    ELSE [s \in Sections |-> SettingsFrom(s, SectionGet(file, s).map)]

(* `self.config` is a reference to the process-wide Config object, or None *)
ConfigOf(self) == IF self.config = "none" THEN None ELSE config

----------------------------------------------------------------------------
(* Python dict built by a comprehension over series.to_dict().items():     *)
(* the entries in the order of the series.                                 *)

PickFrom(series, idx, i) ==
    LET at == SelectSeq([j \in DOMAIN series |-> j], LAMBDA j : j >= i /\ j \in idx)
    IN [k \in DOMAIN at |-> series[at[k]]]

----------------------------------------------------------------------------
(* TimeAnalyzer.detect_anomalies                                           *)

AnomalyThreshold(cfg) ==
    IF cfg # None THEN cfg.analysis.anomaly_std_threshold
    ELSE FromInt(DefaultThresholdWhole)

AnomalyWindow(cfg) ==
    IF cfg # None THEN cfg.analysis.anomaly_detection_window ELSE DefaultWindow

AnomalyFallback ==
    [anomalies |-> <<>>, anomaly_dates |-> <<>>, total_anomalies |-> 0]

(* Variant: rolling statistics only over full windows (min_periods left at  *)
(* its default, the window).                                               *)
IsAnomalyAtFullWindow(vs, i, window, threshold) ==
    ExceedsThreshold(vs[i], RollingMeanAt(vs, i, window, window), threshold,
                     RollingVarAt(vs, i, window, window))

IsAnomalyAt(vs, i, window, threshold) ==
    ExceedsThreshold(vs[i], RollingMeanAt(vs, i, window, 1), threshold,
                     RollingVarAt(vs, i, window, 1))

DetectAnomaliesRaises(table, cfg, inj) ==
    \/ "anomalies" \in inj
    \/ ~({DateCol, SpendCol} \subseteq table.cols)
    \/ AnomalyWindow(cfg) < 1

DetectAnomalies(table, cfg, inj) ==
    IF DetectAnomaliesRaises(table, cfg, inj) THEN AnomalyFallback
    ELSE LET daily == ToFloat(GroupSum(table.rows, DateCol, SpendCol))
             vs == Vals(daily)
             flagged == {i \in DOMAIN vs :
                            IsAnomalyAt(vs, i, AnomalyWindow(cfg), AnomalyThreshold(cfg))}
             anomalies == PickFrom(daily, flagged, 1)
         IN [anomalies |-> anomalies,
             anomaly_dates |-> Keys(anomalies),
             total_anomalies |-> Len(anomalies)]

----------------------------------------------------------------------------
(* TimeAnalyzer.analyze_correlations                                       *)

IsSquare(n) == \E r \in 0..n : r * r = n

Root(n) == CHOOSE r \in 0..n : r * r = n

(* sgn * sqrt(n / d): a rational when n/d is a square of one, else kept    *)
(* symbolically with the sign on n.                                        *)
SqrtRatio(sgn, n, d) ==
    LET g == Gcd(n, d)
        rn == n \div g
        rd == d \div g
    IN IF IsSquare(rn) /\ IsSquare(rd) THEN Num(sgn * Root(rn), Root(rd))
       ELSE [k |-> "sqrt", n |-> sgn * rn, d |-> rd]

Column(rows, col) == [i \in DOMAIN rows |-> rows[i][col]]

Products(xs, ys) == [i \in DOMAIN xs |-> xs[i] * ys[i]]

(* Series.corr: Pearson's r, cov / (std_x * std_y); a zero variance makes  *)
(* it 0/0.                                                                 *)
PearsonCorr(xs, ys) ==
    LET n == Len(xs)
        cov == n * SeqSum(Products(xs, ys)) - SeqSum(xs) * SeqSum(ys)
        vx == n * SeqSum(Products(xs, xs)) - SeqSum(xs) * SeqSum(xs)
        vy == n * SeqSum(Products(ys, ys)) - SeqSum(ys) * SeqSum(ys)
    IN IF n < 2 \/ vx = 0 \/ vy = 0 THEN NaN
       ELSE SqrtRatio(Sign(cov), cov * cov, vx * vy)

CorrelationFallback ==
    [spend_quantity |-> Zero, spend_leadtime |-> Zero, quantity_leadtime |-> Zero]

AnalyzeCorrelationsRaises(table, inj) ==
    \/ "correlations" \in inj
    \/ ~({SpendCol, QtyCol, LeadCol} \subseteq table.cols)

AnalyzeCorrelations(table, inj) ==
    IF AnalyzeCorrelationsRaises(table, inj) THEN CorrelationFallback
    ELSE LET spend == Column(table.rows, SpendCol)
             qty == Column(table.rows, QtyCol)
             lead == Column(table.rows, LeadCol)
         IN [spend_quantity |-> PearsonCorr(spend, qty),
             spend_leadtime |-> PearsonCorr(spend, lead),
             quantity_leadtime |-> PearsonCorr(qty, lead)]

----------------------------------------------------------------------------
(* TimeAnalyzer.analyze_purchase_patterns                                  *)

(* round(2): to the nearest hundredth, ties to the even hundredth.         *)
Round2(v) ==
    IF ~IsNum(v) THEN v
    ELSE LET s == 100 * v.n
             q == s \div v.d
             r2 == 2 * (s - q * v.d)
         IN IF r2 < v.d THEN Num(q, 100)
            ELSE IF r2 > v.d THEN Num(q + 1, 100)
            ELSE Num(IF q % 2 = 0 THEN q ELSE q + 1, 100)

RoundSeries(series) ==
    [i \in DOMAIN series |-> [key |-> series[i].key, val |-> Round2(series[i].val)]]

PatternsFallback ==
    [monthly_aov |-> <<>>, purchase_frequency |-> <<>>, basket_size |-> <<>>]

AnalyzePurchasePatternsRaises(table, inj) ==
    \/ "purchase_patterns" \in inj
    \/ ~({SpendCol, QtyCol, "month_year"} \subseteq table.cols)

AnalyzePurchasePatterns(table, inj) ==
    IF AnalyzePurchasePatternsRaises(table, inj) THEN PatternsFallback
    ELSE LET sums == GroupSum(table.rows, "month_year", SpendCol)
             sizes == GroupSize(table.rows, "month_year")
         IN [monthly_aov |->
                 RoundSeries([i \in DOMAIN sums |->
                     [key |-> sums[i].key, val |-> Num(sums[i].val, sizes[i].val)]]),
             purchase_frequency |-> sizes,
             basket_size |-> RoundSeries(GroupMean(table.rows, "month_year", QtyCol))]

----------------------------------------------------------------------------
(* TimeAnalyzer.calculate_trend_metrics                                    *)

TrendFallback ==
    [direction |-> "Unknown", strength |-> Zero, is_accelerating |-> FALSE,
     acceleration_rate |-> Zero]

TrendMetricsRaises(table, inj) ==
    \/ "trend" \in inj
    \/ ~({SpendCol, "month_year"} \subseteq table.cols)

CalculateTrendMetrics(table, inj) ==
    IF TrendMetricsRaises(table, inj) THEN TrendFallback
    ELSE LET monthly == ToFloat(GroupSum(table.rows, "month_year", SpendCol))
             changes == PctChangeVals(Vals(monthly))
             mean == NanMean(changes)
             acceleration == NanMean(PctChangeVals(changes))
         IN [direction |-> IF FGt(mean, Zero) THEN "Upward" ELSE "Downward",
             strength |-> FMul(FAbs(mean), FromInt(100)),
             is_accelerating |-> FGt(acceleration, Zero),
             acceleration_rate |-> FMul(acceleration, FromInt(100))]

----------------------------------------------------------------------------
(* statsmodels seasonal_decompose(x, period = 12), additive model.         *)

(* Fewer than two complete cycles: ValueError.                             *)
DecomposeRaises(xs) == Len(xs) < 2 * DecomposePeriod

(* Centred 2 x 12 moving average; undefined on the six points of each edge *)
TrendAt(xs, i) ==
    LET h == DecomposePeriod \div 2
    IN IF i - h < 1 \/ i + h > Len(xs) THEN NaN
       ELSE Num(xs[i - h] + xs[i + h]
                + 2 * SeqSum(SubSeq(xs, i - h + 1, i + h - 1)),
                2 * DecomposePeriod)

Decompose(xs) ==
    LET n == Len(xs)
        trend == [i \in 1..n |-> TrendAt(xs, i)]
        detrended == [i \in 1..n |-> FSub(FromInt(xs[i]), trend[i])]
        phase(p) == [i \in 1..n |->
                        IF (i - 1) % DecomposePeriod = p THEN detrended[i] ELSE NaN]
        raw == [p \in 1..DecomposePeriod |-> NanMean(phase(p - 1))]
        centre == NanMean(raw)
        seasonal == [i \in 1..n |-> FSub(raw[((i - 1) % DecomposePeriod) + 1], centre)]
        resid == [i \in 1..n |-> FSub(detrended[i], seasonal[i])]
    IN [seasonal |-> seasonal, trend |-> trend, resid |-> resid]

----------------------------------------------------------------------------
(* TimeAnalyzer.analyze_seasonality                                        *)

(* Variant: the configured minimum is ignored.                              *)
MinMonthsIgnoringConfig(cfg) == DefaultMinMonths

MinMonths(cfg) ==
    IF cfg # None THEN cfg.analysis.min_months_for_seasonality ELSE DefaultMinMonths

WithKeys(series, vs) == [i \in DOMAIN series |-> [key |-> series[i].key, val |-> vs[i]]]

(* seasonal.groupby(seasonal.index.str[5:7]).mean(): by calendar month.    *)
SeasonalFactors(monthly, seasonal) ==
    LET months == SortedSeq({<<monthly[i].key[2]>> : i \in DOMAIN monthly})
    IN [j \in DOMAIN months |->
           [key |-> months[j][1],
            val |-> NanMean([i \in DOMAIN monthly |->
                           IF monthly[i].key[2] = months[j][1] THEN seasonal[i] ELSE NaN])]]

(* idxmax / idxmin: the first key holding the extreme value.               *)
IdxMax(series) ==
    series[CHOOSE i \in DOMAIN series :
              /\ \A j \in DOMAIN series : ~FGt(series[j].val, series[i].val)
              /\ \A j \in 1..(i - 1) : FGt(series[i].val, series[j].val)].key

IdxMin(series) ==
    series[CHOOSE i \in DOMAIN series :
              /\ \A j \in DOMAIN series : ~FGt(series[i].val, series[j].val)
              /\ \A j \in 1..(i - 1) : FGt(series[j].val, series[i].val)].key

SeasonalityInsufficient ==
    [has_seasonality |-> FALSE, message |-> "Insufficient data for seasonal analysis"]

SeasonalityError ==
    [has_seasonality |-> FALSE, message |-> "Error in seasonal analysis"]

SeasonalityRaisesEarly(table, inj) ==
    \/ "seasonality" \in inj
    \/ ~({SpendCol, "month_year"} \subseteq table.cols)

(* Whether the call reaches seasonal_decompose.                            *)
SeasonalityDecomposes(table, cfg, inj) ==
    /\ ~SeasonalityRaisesEarly(table, inj)
    /\ Len(GroupKeys(table.rows, "month_year")) >= MinMonths(cfg)

AnalyzeSeasonality(table, cfg, inj) ==
    IF SeasonalityRaisesEarly(table, inj) THEN SeasonalityError
    ELSE IF ~SeasonalityDecomposes(table, cfg, inj) THEN SeasonalityInsufficient
    ELSE LET monthly == GroupSum(table.rows, "month_year", SpendCol)
             xs == Vals(monthly)
         IN IF DecomposeRaises(xs) THEN SeasonalityError
            ELSE LET dec == Decompose(xs)
                     svar == NanVar(dec.seasonal)
                     total == FAdd(NanVar(dec.resid), svar)
                     factors == SeasonalFactors(monthly, dec.seasonal)
                 IN [has_seasonality |-> TRUE,
                     seasonal_strength |->
                         Round2(FMul(FDiv(svar, total), FromInt(100))),
                     peak_month |-> IdxMax(factors),
                     trough_month |-> IdxMin(factors),
                     seasonal_factors |-> factors,
                     components |->
                         [seasonal |-> WithKeys(monthly, dec.seasonal),
                          trend |-> WithKeys(monthly, dec.trend),
                          residual |-> WithKeys(monthly, dec.resid)]]

----------------------------------------------------------------------------
(* TimeAnalyzer.enhanced_time_analysis                                     *)

Components ==
    {"growth", "seasonality", "anomalies", "purchase_patterns", "correlations", "trend"}

(* Series.nlargest(n), keep = 'first': by value descending, equal values   *)
(* in the order of the series.                                             *)
RECURSIVE NLargest(_, _)
NLargest(series, n) ==
    IF n = 0 \/ series = <<>> THEN <<>>
    ELSE LET i == CHOOSE i \in DOMAIN series :
                      /\ \A j \in DOMAIN series : series[j].val <= series[i].val
                      /\ \A j \in 1..(i - 1) : series[j].val < series[i].val
         IN <<series[i]>>
            \o NLargest(SubSeq(series, 1, i - 1) \o SubSeq(series, i + 1, Len(series)),
                        n - 1)

DayLabels(series) ==
    [i \in DOMAIN series |-> [key |-> DayOrder[series[i].key[1]], val |-> series[i].val]]

DayOfWeekStats(rows) ==
    [total_spend |-> DayLabels(RoundSeries(ToFloat(GroupSum(rows, "day_of_week", SpendCol)))),
     average_spend |-> DayLabels(RoundSeries(GroupMean(rows, "day_of_week", SpendCol))),
     transaction_count |-> DayLabels(GroupSize(rows, "day_of_week")),
     total_quantity |-> DayLabels(RoundSeries(ToFloat(GroupSum(rows, "day_of_week", QtyCol))))]

(* An exception in the statements of lines 143-171, which only the outer   *)
(* try of enhanced_time_analysis guards.                                   *)
EnhancedRaises(table, inj) ==
    \/ "growth" \in inj
    \/ ~(({SpendCol, QtyCol} \cup DerivedColumns) \subseteq table.cols)

(* Variant: the change of the mean transaction in place of the total.     *)
GrowthOfMeans(rows, by) == Times100(PctChange(GroupMean(rows, by, SpendCol)))

Growth(rows, by) == Times100(PctChange(ToFloat(GroupSum(rows, by, SpendCol))))

(* Variant: partial windows (min_periods = 1).                              *)
MovingAveragePartial(rows, window) ==
    RollingMean(ToFloat(GroupSum(rows, "month_year", SpendCol)), window, 1)

MovingAverage(rows, window) ==
    RollingMean(ToFloat(GroupSum(rows, "month_year", SpendCol)), window, window)

EnhancedTimeAnalysis(table, cfg, inj) ==
    IF EnhancedRaises(table, inj) THEN None
    ELSE [yearly_growth |-> Growth(table.rows, "year"),
          quarterly_growth |-> Growth(table.rows, "year_quarter"),
          monthly_growth |-> Growth(table.rows, "month_year"),
          moving_average_3m |-> MovingAverage(table.rows, MaWindowShort),
          moving_average_6m |-> MovingAverage(table.rows, MaWindowLong),
          peak_months |->
              NLargest(GroupSum(table.rows, "month_year", SpendCol), TopPeakMonths),
          day_of_week_stats |-> DayOfWeekStats(table.rows),
          raw_monthly_spend |-> ToFloat(GroupSum(table.rows, "month_year", SpendCol)),
          trend_analysis |-> CalculateTrendMetrics(table, inj),
          anomalies |-> DetectAnomalies(table, cfg, inj),
          purchase_patterns |-> AnalyzePurchasePatterns(table, inj),
          correlations |-> AnalyzeCorrelations(table, inj),
          seasonality_metrics |-> AnalyzeSeasonality(table, cfg, inj)]

----------------------------------------------------------------------------
(* Inputs.                                                                 *)

AnalyzerIds == {1, 2}

SeqsUpTo(S, n) == UNION {[1..m -> S] : m \in 0..n}

InputColumns == {DateCol, SpendCol, QtyCol, LeadCol}

(* Small tables with rows in any order over two years and three quarters.  *)
GeneralDates == {<<2023, 1, 15>>, <<2023, 2, 10>>, <<2024, 5, 3>>}

GeneralRows == {MkRow(d, s, 1 + s, 1) : d \in GeneralDates, s \in {0, 3}}

GeneralTables ==
    {MkTable(rows, cols) : rows \in SeqsUpTo(GeneralRows, MaxRows),
                           cols \in {InputColumns, InputColumns \ {LeadCol}}}

NoRet == [op |-> "none", self |-> 0, inj |-> {}, val |-> None]

InitWith(table, cfg) ==
    /\ tables = <<table>>
    /\ uploaded = 1
    /\ source = table
    /\ config = cfg
    /\ config_file = SaveToYaml(cfg)
    /\ analyzers = [a \in AnalyzerIds |-> None]
    /\ ret = NoRet
    /\ decompose_calls = 0

Init ==
    \E table \in GeneralTables :
        InitWith(table, DefaultConfig)

----------------------------------------------------------------------------
(* Operations.                                                             *)

(* TimeAnalyzer.__init__(df, config): keeps the reference to df, rewrites  *)
(* its date column, keeps the reference to config, and runs prepare_data.  *)
TimeAnalyzer(a, with_config) ==
    /\ analyzers[a] = None
    /\ DateCol \in tables[uploaded].cols
    /\ analyzers' = [analyzers EXCEPT
                        ![a] = [df |-> uploaded,
                                config |-> IF with_config THEN "config" ELSE "none"]]
    /\ tables' = [tables EXCEPT ![uploaded] = PrepareData(@)]
    /\ UNCHANGED <<uploaded, source, config, config_file, ret, decompose_calls>>

Returns(op, a, inj, val, calls) ==
    /\ ret' = [op |-> op, self |-> a, inj |-> inj, val |-> val]
    /\ decompose_calls' = calls
    /\ UNCHANGED <<tables, uploaded, source, config, config_file, analyzers>>

Df(a) == tables[analyzers[a].df]

Cfg(a) == ConfigOf(analyzers[a])

detect_anomalies(a) ==
    /\ analyzers[a] # None
    /\ Returns("detect_anomalies", a, {}, DetectAnomalies(Df(a), Cfg(a), {}), 0)

analyze_correlations(a) ==
    /\ analyzers[a] # None
    /\ Returns("analyze_correlations", a, {}, AnalyzeCorrelations(Df(a), {}), 0)

analyze_purchase_patterns(a) ==
    /\ analyzers[a] # None
    /\ Returns("analyze_purchase_patterns", a, {}, AnalyzePurchasePatterns(Df(a), {}), 0)

calculate_trend_metrics(a) ==
    /\ analyzers[a] # None
    /\ Returns("calculate_trend_metrics", a, {}, CalculateTrendMetrics(Df(a), {}), 0)

analyze_seasonality(a) ==
    /\ analyzers[a] # None
    /\ Returns("analyze_seasonality", a, {}, AnalyzeSeasonality(Df(a), Cfg(a), {}),
               IF SeasonalityDecomposes(Df(a), Cfg(a), {}) THEN 1 ELSE 0)

(* inj: the components whose computation raises in this run.               *)
enhanced_time_analysis(a, inj) ==
    /\ analyzers[a] # None
    /\ Returns("enhanced_time_analysis", a, inj,
               EnhancedTimeAnalysis(Df(a), Cfg(a), inj),
               IF ~EnhancedRaises(Df(a), inj) /\ SeasonalityDecomposes(Df(a), Cfg(a), inj)
               THEN 1 ELSE 0)

----------------------------------------------------------------------------
(* Start of the process (app.py 14-19): importing config.settings writes   *)
(* the default config.yaml when there is none, ConfigManager() loads the   *)
(* file, get_config() hands out the loaded object.                         *)

FileAtImport(file) == IF file = Absent THEN SaveToYaml(DefaultConfig) ELSE file

ConfigManager ==
    /\ config = None
    /\ config_file' = FileAtImport(config_file)
    /\ config' = IF LoadRaises(FileAtImport(config_file)) THEN None
                 ELSE LoadFromYaml(FileAtImport(config_file))
    /\ ret' = [op |-> "ConfigManager", self |-> 0, inj |-> {},
               val |-> LoadFromYaml(FileAtImport(config_file))]
    /\ UNCHANGED <<tables, uploaded, source, analyzers, decompose_calls>>

----------------------------------------------------------------------------
(* ConfigManager.show_config_editor: every widget returns a value, which   *)
(* is assigned to its field of the shared Config object; a pressed Save    *)
(* button writes the object to config.yaml.  w holds the values of the     *)
(* widgets the user can have moved; the others return the value they were  *)
(* given.  The template selectbox is given index 0, not the current value. *)

WidgetRaises(cfg) ==
    \/ cfg.analysis.min_months_for_seasonality \notin 6..24
    \/ FGt(Num(1, 1), cfg.analysis.anomaly_std_threshold)
    \/ FGt(cfg.analysis.anomaly_std_threshold, Num(4, 1))
    \/ FGt(Num(1, 10), cfg.analysis.correlation_strength_threshold)
    \/ FGt(cfg.analysis.correlation_strength_threshold, Num(1, 1))
    \/ cfg.visualization.default_chart_height \notin 200..800

EditedConfig(cfg, w) ==
    [cfg EXCEPT !.analysis.min_months_for_seasonality = w.min_months,
                !.analysis.anomaly_std_threshold = w.threshold,
                !.analysis.correlation_strength_threshold = w.correlation,
                !.visualization.chart_template = w.template]

(* Variant: every pass writes the settings file, pressed or not.            *)
EditorPassSavingAlways(w) ==
    /\ config' = EditedConfig(config, w)
    /\ config_file' = SaveToYaml(EditedConfig(config, w))

EditorPass(w) ==
    /\ config' = EditedConfig(config, w)
    /\ config_file' = IF w.save THEN SaveToYaml(EditedConfig(config, w)) ELSE config_file

show_config_editor(w) ==
    /\ config # None
    /\ ~WidgetRaises(config)
    /\ EditorPass(w)
    /\ UNCHANGED <<tables, uploaded, source, analyzers, ret, decompose_calls>>

----------------------------------------------------------------------------
(* The views of main and the export.                                       *)

SheetNames ==
    <<"Yearly Growth", "Monthly Growth", "Quarterly Growth", "Peak Months",
      "Day of Week Analysis", "Moving Averages", "Monthly Spend", "Seasonality">>

(* results['seasonality_metrics']['seasonal_strength'] of a block that is  *)
(* a non-empty dict without that key: KeyError.                            *)
SeasonalStrengthRaises(results) ==
    "seasonal_strength" \notin DOMAIN results.seasonality_metrics

(* prepare_analysis_for_excel: sheet name -> its data.                     *)
PrepareAnalysisForExcel(results) ==
    IF SeasonalStrengthRaises(results) THEN Raised
    ELSE [sheets |->
             ("Yearly Growth" :> results.yearly_growth)
          @@ ("Monthly Growth" :> results.monthly_growth)
          @@ ("Quarterly Growth" :> results.quarterly_growth)
          @@ ("Peak Months" :> results.peak_months)
          @@ ("Day of Week Analysis" :> results.day_of_week_stats)
          @@ ("Moving Averages" :>
                  <<results.moving_average_3m, results.moving_average_6m>>)
          @@ ("Monthly Spend" :> results.raw_monthly_spend)
          @@ ("Seasonality" :> results.seasonality_metrics.seasonal_strength)]

(* abs(value) > 0.7 on a coefficient; false on NaN.                        *)
AbsExceeds(v, t) ==
    CASE v.k = "num" -> FGt(FAbs(v), t)
      [] v.k = "sqrt" -> Abs(v.n) * t.d * t.d > v.d * t.n * t.n
      [] OTHER -> FALSE

(* The literal of the `delta=` expressions and of the insight loop.        *)
StrongAbove == Num(7, 10)

StrongPairs(results) ==
    {p \in DOMAIN results.correlations : AbsExceeds(results.correlations[p], StrongAbove)}

(* list(...values())[-1] on an empty purchase-pattern dict: IndexError.    *)
LatestValuesRaise(results) ==
    \E f \in DOMAIN results.purchase_patterns : results.purchase_patterns[f] = <<>>

Tabs == <<"growth", "patterns", "summary", "insights">>

(* The four tabs in order, up to the first statement that raises; the      *)
(* except clause of main reports the failure.                              *)
Display(results) ==
    LET excel == PrepareAnalysisForExcel(results)
        done == IF SeasonalStrengthRaises(results) THEN 1
                ELSE IF excel = Raised THEN 2
                ELSE IF LatestValuesRaise(results) THEN 3
                ELSE 4
    IN [tabs |-> {Tabs[i] : i \in 1..done},
        excel |-> IF done >= 3 THEN excel ELSE None,
        strong |-> IF done = 4 THEN StrongPairs(results) ELSE {},
        insights |-> IF done = 4 THEN StrongPairs(results) ELSE {},
        error |-> done < 4]

NoDisplay == [tabs |-> {}, excel |-> None, strong |-> {}, insights |-> {}, error |-> FALSE]

MissingColumnsMessage == RequiredColumns

MainView(outcome, listed, results, display) ==
    [outcome |-> outcome, listed |-> listed, results |-> results, display |-> display]

(* prepare_analysis_for_excel applied to the result of the latest run.     *)
LatestResults ==
    CASE ret.op = "main" -> ret.val.results
      [] ret.op = "enhanced_time_analysis" -> ret.val
      [] OTHER -> None

prepare_analysis_for_excel ==
    /\ LatestResults # None
    /\ ret' = [op |-> "prepare_analysis_for_excel", self |-> ret.self, inj |-> ret.inj,
               val |-> [results |-> LatestResults,
                        excel |-> PrepareAnalysisForExcel(LatestResults)]]
    /\ UNCHANGED <<tables, uploaded, source, config, config_file, analyzers,
                   decompose_calls>>

(* One pass of main over the uploaded table: the settings editor, the      *)
(* check of the columns, the analyzer over df and the shared Config, the   *)
(* run and the tabs.                                                       *)
main(w) ==
    /\ config # None
    /\ ~WidgetRaises(config)
    /\ EditorPass(w)
    /\ UNCHANGED <<uploaded, source>>
    /\ IF ~(RequiredColumns \subseteq tables[uploaded].cols)
       THEN /\ ret' = [op |-> "main", self |-> 0, inj |-> {},
                       val |-> MainView("missing_columns", MissingColumnsMessage,
                                        None, NoDisplay)]
            /\ UNCHANGED <<tables, analyzers, decompose_calls>>
       ELSE LET df == PrepareData(tables[uploaded])
                cfg == EditedConfig(config, w)
                results == EnhancedTimeAnalysis(df, cfg, {})
            IN /\ tables' = [tables EXCEPT ![uploaded] = df]
               /\ analyzers' = [analyzers EXCEPT
                                   ![1] = [df |-> uploaded, config |-> "config"]]
               /\ decompose_calls' =
                      IF ~EnhancedRaises(df, {}) /\ SeasonalityDecomposes(df, cfg, {})
                      THEN 1 ELSE 0
               /\ ret' = [op |-> "main", self |-> 1, inj |-> {},
                          val |-> IF results = None
                                  THEN MainView("no_results", {}, None, NoDisplay)
                                  ELSE MainView("displayed", {}, results,
                                                Display(results))]

FaultSets == {{}} \cup {{c} : c \in Components}

ComponentCalls(a) ==
    \/ detect_anomalies(a)
    \/ analyze_correlations(a)
    \/ analyze_purchase_patterns(a)
    \/ calculate_trend_metrics(a)
    \/ analyze_seasonality(a)

(* One analyzer over the uploaded table, with failures of the components.  *)
Next ==
    \/ \E with_config \in BOOLEAN : TimeAnalyzer(1, with_config)
    \/ ComponentCalls(1)
    \/ \E inj \in FaultSets : enhanced_time_analysis(1, inj)

Spec == Init /\ [][Next]_vars

(* Two analyzers built over the same uploaded table.                       *)
NextShared ==
    \/ \E a \in AnalyzerIds, with_config \in BOOLEAN : TimeAnalyzer(a, with_config)
    \/ \E a \in AnalyzerIds : ComponentCalls(a)
    \/ \E a \in AnalyzerIds : enhanced_time_analysis(a, {})

SpecShared == Init /\ [][NextShared]_vars

----------------------------------------------------------------------------
(* Daily series: one transaction a day from 2023-01-01.                    *)

DailyRows(vals) == [i \in DOMAIN vals |-> MkRow(<<2023, 1, i>>, vals[i], 1, 1)]

DailyValues == {10, 20, 100}

(* The series [10, 10, 10, 10, 10, 10, 100].                               *)
ExampleSeries == [i \in 1..7 |-> IF i = 7 THEN 100 ELSE 10]

(* SpikeDays days at a baseline of $1,000 with $50,000 on day k, in units  *)
(* of $100; k = 0 is the series without a spike.                           *)
SpikeDays == 30

SpikeSeries(k) == [i \in 1..SpikeDays |-> IF i = k THEN 500 ELSE 10]

DailySeries ==
    SeqsUpTo(DailyValues, MaxDays) \cup {ExampleSeries}
        \cup {SpikeSeries(k) : k \in 0..SpikeDays}

AnomalyConfigs ==
    {MkConfig(DefaultMinMonths, w, t) : w \in {1, 2, 3, 7},
                                        t \in {Num(1, 1), Num(3, 2), Num(2, 1), Num(5, 2)}}

InitAnomaly ==
    \E vals \in DailySeries, cfg \in AnomalyConfigs :
        InitWith(MkTable(DailyRows(vals), InputColumns), cfg)

NextAnomaly ==
    \/ \E with_config \in BOOLEAN : TimeAnalyzer(1, with_config)
    \/ detect_anomalies(1)

SpecAnomaly == InitAnomaly /\ [][NextAnomaly]_vars

----------------------------------------------------------------------------
(* Monthly series: per_month transactions in each month from 2023-01.      *)

MonthDate(i, day) == <<2023 + ((i - 1) \div 12), ((i - 1) % 12) + 1, day>>

MonthlyRows(vals, per_month) ==
    [j \in 1..(Len(vals) * per_month) |->
        MkRow(MonthDate(((j - 1) \div per_month) + 1, ((j - 1) % per_month) + 1),
              vals[((j - 1) \div per_month) + 1], 1, 1)]

MonthlyShape(n, base, step, period) ==
    [i \in 1..n |-> base + step * ((i - 1) % period)]

MonthlySeries ==
    {MonthlyShape(n, base, step, period) :
        n \in 0..MaxMonths, base \in {0, 5}, step \in {0, 1, 3}, period \in {2, 5}}

SeasonalityConfigs ==
    {MkConfig(m, DefaultWindow, FromInt(DefaultThresholdWhole)) : m \in {6, 12, 13}}

InitMonthly ==
    \E vals \in MonthlySeries, per_month \in {1, 2}, cfg \in SeasonalityConfigs :
        InitWith(MkTable(MonthlyRows(vals, per_month), InputColumns), cfg)

NextMonthly ==
    \/ \E with_config \in BOOLEAN : TimeAnalyzer(1, with_config)
    \/ analyze_seasonality(1)
    \/ enhanced_time_analysis(1, {})

SpecMonthly == InitMonthly /\ [][NextMonthly]_vars

----------------------------------------------------------------------------
(* Transactions of one day with varying spend, quantity and lead time.     *)

CorrRows == {MkRow(<<2023, 1, 1>>, s, q, l) : s \in {1, 2, 3}, q \in {1, 2}, l \in {1, 2}}

InitCorr ==
    \E rows \in SeqsUpTo(CorrRows, MaxCorrRows) :
        InitWith(MkTable(rows, InputColumns), DefaultConfig)

NextCorr ==
    \/ \E with_config \in BOOLEAN : TimeAnalyzer(1, with_config)
    \/ analyze_correlations(1)

SpecCorr == InitCorr /\ [][NextCorr]_vars

----------------------------------------------------------------------------
(* Passes of main: uploads with any subset of the columns, monthly uploads *)
(* short of and beyond two years, and two-year uploads whose quantity and  *)
(* lead time follow the spend more or less closely.                        *)

PatternRows(n, spend, qty, lead) ==
    [i \in 1..n |->
        MkRow(MonthDate(i, 1), spend[((i - 1) % Len(spend)) + 1],
              qty[((i - 1) % Len(qty)) + 1], lead[((i - 1) % Len(lead)) + 1])]

Patterns == {<<1, 2>>, <<2, 1>>, <<1, 2, 2, 2>>, <<2, 1, 1, 1>>, <<1, 1>>}

ColumnTables ==
    {MkTable(<<MkRow(<<2023, 1, 15>>, 3, 4, 1), MkRow(<<2023, 2, 10>>, 3, 1, 2)>>, cols) :
        cols \in SUBSET InputColumns}

HistoryTables ==
    {MkTable(PatternRows(n, <<5, 8, 6>>, <<1, 2>>, <<1, 1, 2>>), InputColumns) :
        n \in {3, 2 * DecomposePeriod - 1, 2 * DecomposePeriod, MaxMainMonths}}

PatternTables ==
    {MkTable(PatternRows(2 * DecomposePeriod, <<1, 2>>, qty, lead), cols) :
        qty \in Patterns, lead \in Patterns, cols \in {InputColumns}}

MainTables == ColumnTables \cup HistoryTables \cup PatternTables

MainWidgets ==
    [min_months : {DefaultMinMonths}, threshold : {FromInt(DefaultThresholdWhole)},
     correlation : {Num(5, 10), Num(7, 10)}, template : {"plotly_white"},
     save : {FALSE}]

InitMain == \E table \in MainTables : InitWith(table, DefaultConfig)

NextMain ==
    \/ \E w \in MainWidgets : main(w)
    \/ prepare_analysis_for_excel

SpecMain == InitMain /\ [][NextMain]_vars

----------------------------------------------------------------------------
(* An analyzer held across passes of the settings editor: eight months of  *)
(* spend, and the week [10, 10, 10, 10, 10, 10, 100].                      *)

EditorTables ==
    {MkTable(MonthlyRows(MonthlyShape(8, 5, 1, 2), 1), InputColumns),
     MkTable(DailyRows(ExampleSeries), InputColumns),
     MkTable(DailyRows(<<10, 20, 10>>), InputColumns)}

EditorWidgets ==
    [min_months : {6, DefaultMinMonths},
     threshold : {Num(1, 1), FromInt(DefaultThresholdWhole)},
     correlation : {Num(7, 10)}, template : {"plotly_white"},
     save : BOOLEAN]

InitEditor == \E table \in EditorTables : InitWith(table, DefaultConfig)

NextEditor ==
    \/ \E with_config \in BOOLEAN : TimeAnalyzer(1, with_config)
    \/ \E w \in EditorWidgets : show_config_editor(w)
    \/ analyze_seasonality(1)
    \/ detect_anomalies(1)

SpecEditor == InitEditor /\ [][NextEditor]_vars

----------------------------------------------------------------------------
(* Peak months: up to MaxPeakMonths months of spend 1 or 2, under settings *)
(* whose top_peak_months is the default or a smaller count.                *)

PeakConfigs ==
    {[DefaultConfig EXCEPT !.analysis.top_peak_months = k] : k \in {2, TopPeakMonths}}

InitPeaks ==
    \E vals \in SeqsUpTo({1, 2}, MaxPeakMonths), cfg \in PeakConfigs :
        InitWith(MkTable(MonthlyRows(vals, 1), InputColumns), cfg)

NextPeaks ==
    \/ \E with_config \in BOOLEAN : TimeAnalyzer(1, with_config)
    \/ enhanced_time_analysis(1, {})

SpecPeaks == InitPeaks /\ [][NextPeaks]_vars

----------------------------------------------------------------------------
(* Histories around two years of months: flat spend, and spend repeating   *)
(* every two or every five months.                                         *)

SeasonSeries ==
    {MonthlyShape(n, base, step, period) :
        n \in (2 * DecomposePeriod - 1)..MaxSeasonMonths,
        base \in {0, 5}, step \in {0, 1, 3}, period \in {2, 5}}

InitSeason ==
    \E vals \in SeasonSeries, m \in {DefaultMinMonths, 2 * DecomposePeriod} :
        InitWith(MkTable(MonthlyRows(vals, 1), InputColumns),
                 MkConfig(m, DefaultWindow, FromInt(DefaultThresholdWhole)))

NextSeason ==
    \/ \E with_config \in BOOLEAN : TimeAnalyzer(1, with_config)
    \/ analyze_seasonality(1)

SpecSeason == InitSeason /\ [][NextSeason]_vars

----------------------------------------------------------------------------
(* Trends: up to MaxTrendMonths months of spend 0, 1, 2 or 4.              *)

InitTrend ==
    \E vals \in SeqsUpTo({0, 1, 2, 4}, MaxTrendMonths) :
        InitWith(MkTable(MonthlyRows(vals, 1), InputColumns), DefaultConfig)

NextTrend ==
    \/ \E with_config \in BOOLEAN : TimeAnalyzer(1, with_config)
    \/ calculate_trend_metrics(1)

SpecTrend == InitTrend /\ [][NextTrend]_vars

----------------------------------------------------------------------------
(* Start of the process over a settings file: no file, an empty file, or a *)
(* mapping in which a section is absent, is a key without fields, or holds *)
(* any subset of its fields.                                               *)

PersistedAnalysis ==
    [min_months_for_seasonality |-> 6, moving_average_windows |-> <<2, 4>>,
     top_peak_months |-> 3, anomaly_detection_window |-> 5,
     anomaly_std_threshold |-> Num(3, 1),
     trend_significance_threshold |-> Num(1, 10),
     correlation_strength_threshold |-> Num(1, 2)]

Restrict(f, S) == [x \in S |-> f[x]]

AnalysisSections ==
    {None} \cup {YamlMap(Restrict(RepresentSection("analysis", PersistedAnalysis), S)) :
                     S \in SUBSET DOMAIN PersistedAnalysis}

VisualizationSections ==
    {None, YamlMap(RepresentSection("visualization", DefaultVisualizationSettings))}

(* The document with the sections given; absent = TRUE leaves the key out. *)
Document(analysis, no_analysis, visualization, no_visualization) ==
    YamlMap(Restrict([analysis |-> analysis, visualization |-> visualization],
                     {s \in {"analysis"} : ~no_analysis}
                         \cup {s \in {"visualization"} : ~no_visualization}))

SettingsFiles ==
    {Absent, None}
        \cup {Document(a, na, v, nv) :
                  a \in AnalysisSections, na \in BOOLEAN,
                  v \in VisualizationSections, nv \in BOOLEAN}

InitConfig ==
    /\ tables = <<MkTable(<<>>, InputColumns)>>
    /\ uploaded = 1
    /\ source = MkTable(<<>>, InputColumns)
    /\ config = None
    /\ config_file \in SettingsFiles
    /\ analyzers = [a \in AnalyzerIds |-> None]
    /\ ret = NoRet
    /\ decompose_calls = 0

NextConfig == ConfigManager

SpecConfig == InitConfig /\ [][NextConfig]_vars

----------------------------------------------------------------------------
(* Whole calendar months of daily transactions with the same spend every   *)
(* day: a few months, and spans of two years of months from several        *)
(* starting months.  Spend is in units of $1000.                           *)

IsLeapYear(y) == (y % 4 = 0 /\ y % 100 # 0) \/ y % 400 = 0

DaysInMonth(y, m) ==
    IF m = 2 THEN (IF IsLeapYear(y) THEN 29 ELSE 28)
    ELSE IF m \in {4, 6, 9, 11} THEN 30 ELSE 31

(* The k-th month after the month start = <<year, month>>.                 *)
MonthAfter(start, k) ==
    LET i == start[1] * 12 + (start[2] - 1) + k
    IN <<i \div 12, (i % 12) + 1>>

RECURSIVE SpanDates(_, _)
SpanDates(start, n) ==
    IF n = 0 THEN <<>>
    ELSE LET ym == MonthAfter(start, n - 1)
         IN SpanDates(start, n - 1)
                \o [d \in 1..DaysInMonth(ym[1], ym[2]) |-> <<ym[1], ym[2], d>>]

ConstantDaily(start, n, spend) ==
    LET dates == SpanDates(start, n)
    IN MkTable([i \in DOMAIN dates |-> MkRow(dates[i], spend, 10, 5)], InputColumns)

SpanStarts == {<<2022, 1>>, <<2023, 1>>, <<2023, 7>>, <<2024, 1>>}

(* Two calendar years of months.                                           *)
SpanMonths == 2 * 12

YearTables ==
    {ConstantDaily(start, n, spend) :
         start \in SpanStarts, n \in 1..MaxShortSpan, spend \in {1, 5, 10}}
      \cup {ConstantDaily(start, SpanMonths, 1) : start \in SpanStarts}

InitYears == \E table \in YearTables : InitWith(table, DefaultConfig)

NextYears ==
    \/ TimeAnalyzer(1, TRUE)
    \/ enhanced_time_analysis(1, {})

SpecYears == InitYears /\ [][NextYears]_vars

----------------------------------------------------------------------------
(* Properties.  They are stated on the latest call (ret), the table the    *)
(* receiver holds and the settings its call read, without the operators    *)
(* that compute the results.                                               *)

Range(s) == {s[i] : i \in DOMAIN s}

Min(a, b) == IF a < b THEN a ELSE b

Receiver == analyzers[ret.self]

ReadsConfig == Receiver.config = "config"

EffectiveMinMonths ==
    IF ReadsConfig THEN config.analysis.min_months_for_seasonality ELSE 12

EffectiveWindow == IF ReadsConfig THEN config.analysis.anomaly_detection_window ELSE 7

EffectiveThreshold == IF ReadsConfig THEN config.analysis.anomaly_std_threshold ELSE Num(2, 1)

EnhancedReturned == ret.op = "enhanced_time_analysis" /\ ret.val # None

(* The calendar period of a transaction, from its date alone.              *)
PeriodOf(row, kind) ==
    LET date == row[DateCol]
    IN CASE kind = "year" -> <<date[1]>>
         [] kind = "quarter" -> <<date[1], ((date[2] + 2) \div 3)>>
         [] kind = "month" -> <<date[1], date[2]>>
         [] kind = "day" -> date

Periods(kind) == SortedSeq({PeriodOf(r, kind) : r \in Range(source.rows)})

SpendIn(kind, period) ==
    SeqSum([i \in DOMAIN source.rows |->
               IF PeriodOf(source.rows[i], kind) = period
               THEN source.rows[i][SpendCol] ELSE 0])

PeriodTotals(kind) ==
    LET ps == Periods(kind)
    IN [i \in DOMAIN ps |-> SpendIn(kind, ps[i])]

----------------------------------------------------------------------------
(* C1: if one analytical component alone fails during                      *)
(* enhanced_time_analysis, the result is still produced (not None), that   *)
(* component's block is its fallback, and every other block has the value  *)
(* it has without the failure.                                             *)

BlockOf(result, c) ==
    CASE c = "growth" -> <<result.yearly_growth, result.quarterly_growth,
                           result.monthly_growth, result.moving_average_3m,
                           result.moving_average_6m>>
      [] c = "seasonality" -> result.seasonality_metrics
      [] c = "anomalies" -> result.anomalies
      [] c = "purchase_patterns" -> result.purchase_patterns
      [] c = "correlations" -> result.correlations
      [] c = "trend" -> result.trend_analysis

FallbackOf(c) ==
    CASE c = "growth" -> <<<<>>, <<>>, <<>>, <<>>, <<>>>>
      [] c = "seasonality" -> SeasonalityError
      [] c = "anomalies" -> AnomalyFallback
      [] c = "purchase_patterns" -> PatternsFallback
      [] c = "correlations" -> CorrelationFallback
      [] c = "trend" -> TrendFallback

IsolatedFor(failing) ==
    (/\ ret.op = "enhanced_time_analysis"
     /\ ret.inj \in {{c} : c \in failing}
     /\ source.rows # <<>>) =>
        /\ ret.val # None
        /\ \A c \in Components :
              BlockOf(ret.val, c) =
                  IF c \in ret.inj THEN FallbackOf(c)
                  ELSE BlockOf(EnhancedTimeAnalysis(tables[Receiver.df],
                                                    ConfigOf(Receiver), {}), c)

C1_FaultIsolation == IsolatedFor(Components)

(* What the code does provide: the five components with a try of their own *)
C1_GuardedComponentsIsolated == IsolatedFor(Components \ {"growth"})

----------------------------------------------------------------------------
(* C2: constructing a TimeAnalyzer over a table and running its analyses   *)
(* leaves the caller's table as it was loaded, the derived columns living  *)
(* in a separate copy, so that two analyzers share no table.               *)

C2_SourceTableUnchanged ==
    \A a \in AnalyzerIds :
        (analyzers[a] # None /\ source.rows # <<>>) =>
            /\ tables[uploaded] = source
            /\ analyzers[a].df # uploaded
            /\ \A b \in AnalyzerIds \ {a} :
                   analyzers[b] # None => analyzers[b].df # analyzers[a].df

----------------------------------------------------------------------------
(* C3: with fewer distinct months than min_months_for_seasonality (the     *)
(* configured value, 12 without a configuration) analyze_seasonality       *)
(* returns has_seasonality = False with a message and the decomposition is *)
(* not invoked.                                                            *)

DistinctMonths == Len(Periods("month"))

SeasonalityBlock ==
    IF ret.op = "analyze_seasonality" THEN ret.val ELSE ret.val.seasonality_metrics

C3_SeasonalityGate ==
    ((ret.op = "analyze_seasonality" \/ EnhancedReturned)
        /\ DistinctMonths < EffectiveMinMonths) =>
        /\ SeasonalityBlock.has_seasonality = FALSE
        /\ "message" \in DOMAIN SeasonalityBlock
        /\ decompose_calls = 0

C3_Witness ==
    /\ ret.op = "analyze_seasonality"
    /\ ReadsConfig
    /\ DistinctMonths = 12
    /\ EffectiveMinMonths = 13
    /\ ret.val.has_seasonality = FALSE
    /\ decompose_calls = 0

----------------------------------------------------------------------------
(* C4: detect_anomalies flags a day iff |spend - mean| > threshold * std,  *)
(* mean and (sample) standard deviation taken over the trailing window of  *)
(* at most `window` daily totals ending at that day; the last day of       *)
(* [10,10,10,10,10,10,100] is flagged with window 7 and threshold 2.0.     *)

DailyTotals == PeriodTotals("day")

TrailingWindow(v, i, w) == [j \in 1..Min(i, w) |-> v[i - Min(i, w) + j]]

(* With n values of sum S in the window, squared and cleared of the        *)
(* denominators: (n-1) (n x - S)^2 > t^2 Sum (n v - S)^2; a window of one  *)
(* value has no standard deviation.                                        *)
RuleFlags(v, i, w, t) ==
    LET win == TrailingWindow(v, i, w)
        n == Len(win)
        S == SeqSum(win)
        SS == SeqSum([j \in DOMAIN win |-> (n * win[j] - S) * (n * win[j] - S)])
    IN /\ n >= 2
       /\ t.d * t.d * (n - 1) * (n * v[i] - S) * (n * v[i] - S) > t.n * t.n * SS

Flagged(days) == {i \in DOMAIN days : days[i] \in Range(ret.val.anomaly_dates)}

C4_AnomalyRule ==
    ret.op = "detect_anomalies" =>
        LET v == DailyTotals
            days == Periods("day")
            flagged == Flagged(days)
        IN /\ Range(ret.val.anomaly_dates) \subseteq Range(days)
           /\ \A i \in DOMAIN v :
                  i \in flagged <=> RuleFlags(v, i, EffectiveWindow, EffectiveThreshold)
           /\ (/\ v = ExampleSeries
               /\ EffectiveWindow = 7
               /\ EffectiveThreshold = Num(2, 1)) => 7 \in flagged

C4_Witness ==
    /\ ret.op = "detect_anomalies"
    /\ DailyTotals = ExampleSeries
    /\ EffectiveWindow = 7
    /\ EffectiveThreshold = Num(2, 1)
    /\ ret.val.anomaly_dates = <<<<2023, 1, 7>>>>
    /\ ret.val.total_anomalies = 1

----------------------------------------------------------------------------
(* C5: when all daily totals are equal, whatever the length, the window    *)
(* and the threshold, detect_anomalies returns the empty anomaly set and   *)
(* total_anomalies = 0.                                                    *)

ConstantSeries(v) == \A i, j \in DOMAIN v : v[i] = v[j]

C5_ConstantSeriesNoAnomaly ==
    (ret.op = "detect_anomalies" /\ ConstantSeries(DailyTotals)) =>
        /\ ret.val.anomalies = <<>>
        /\ ret.val.anomaly_dates = <<>>
        /\ ret.val.total_anomalies = 0

C5_Witness ==
    /\ ret.op = "detect_anomalies"
    /\ ConstantSeries(DailyTotals)
    /\ Len(DailyTotals) >= 3
    /\ EffectiveWindow \in 2..3
    /\ ret.val.total_anomalies = 0

----------------------------------------------------------------------------
(* C6: 30 days at 1,000 a day but one day at 50,000, window 7, threshold   *)
(* 2.0: the anomaly list holds exactly the date of the spike.              *)

SpikeAt(v) == CHOOSE i \in DOMAIN v : v[i] = 500

SpikeDay == SpikeAt(DailyTotals)

SpikeDate == Periods("day")[SpikeDay]

HasOneSpike(v) ==
    /\ Len(v) = SpikeDays
    /\ \E i \in DOMAIN v :
           /\ v[i] = 500
           /\ \A j \in DOMAIN v \ {i} : v[j] = 10

SpikeScenario ==
    /\ ret.op = "detect_anomalies"
    /\ EffectiveWindow = 7
    /\ EffectiveThreshold = Num(2, 1)
    /\ HasOneSpike(DailyTotals)

(* As claimed: whichever day carries the spike.                            *)
C6_SpikeAlwaysListed ==
    SpikeScenario => ret.val.anomaly_dates = <<SpikeDate>>

(* As amended: the spike is listed, alone, when it falls on the sixth day  *)
(* or later; on one of the first five days the list is empty.              *)
C6_SpikeListedFromSixthDay ==
    SpikeScenario =>
        ret.val.anomaly_dates =
            IF SpikeDay >= 6 THEN <<SpikeDate>> ELSE <<>>

C6_Witness ==
    /\ SpikeScenario
    /\ SpikeDay = 6
    /\ ret.val.anomaly_dates = <<<<2023, 1, 6>>>>

----------------------------------------------------------------------------
(* C7: in yearly_growth, quarterly_growth and monthly_growth of a result   *)
(* computed from a non-empty table, the chronologically first period holds *)
(* the missing marker (NaN, never 0 or another number) and every later     *)
(* period i holds (v[i] - v[i-1]) / v[i-1] * 100.                          *)

FormulaGrowth(cur, prev) ==
    FMul(FDiv(FromInt(cur - prev), FromInt(prev)), FromInt(100))

GrowthAsSpecified(growth, kind) ==
    LET v == PeriodTotals(kind)
    IN /\ Keys(growth) = Periods(kind)
       /\ growth[1].val = NaN
       /\ \A i \in 2..Len(growth) : growth[i].val = FormulaGrowth(v[i], v[i - 1])

C7_GrowthSeries ==
    (EnhancedReturned /\ source.rows # <<>>) =>
        /\ GrowthAsSpecified(ret.val.yearly_growth, "year")
        /\ GrowthAsSpecified(ret.val.quarterly_growth, "quarter")
        /\ GrowthAsSpecified(ret.val.monthly_growth, "month")

C7_Witness ==
    /\ EnhancedReturned
    /\ Len(ret.val.yearly_growth) = 2
    /\ ret.val.yearly_growth[1].val = NaN
    /\ IsNum(ret.val.yearly_growth[2].val)
    /\ ret.val.yearly_growth[2].val # Zero
    /\ Len(ret.val.quarterly_growth) >= 4
    /\ IsNum(ret.val.monthly_growth[2].val)

----------------------------------------------------------------------------
(* C8: when the aggregate spend of a period is zero, the growth of the     *)
(* following period is reported as missing (the marker of the first        *)
(* period), whether that period's spend is zero or not, and the run is not *)
(* aborted.                                                                *)

MissingAfterZero(growth, kind) ==
    LET v == PeriodTotals(kind)
    IN \A i \in 2..Len(growth) : v[i - 1] = 0 => growth[i].val = growth[1].val

C8_ZeroPriorIsMissing ==
    (ret.op = "enhanced_time_analysis" /\ source.rows # <<>>) =>
        /\ ret.val # None
        /\ MissingAfterZero(ret.val.yearly_growth, "year")
        /\ MissingAfterZero(ret.val.quarterly_growth, "quarter")
        /\ MissingAfterZero(ret.val.monthly_growth, "month")

----------------------------------------------------------------------------
(* C9: for w = 3 and w = 6 the moving average is missing at each of the    *)
(* first w-1 months and from the w-th month on is the mean of the monthly  *)
(* spend of exactly the w months ending at that month.                     *)

MovingAverageAsSpecified(ma, w) ==
    LET v == PeriodTotals("month")
    IN /\ Keys(ma) = Periods("month")
       /\ \A i \in DOMAIN ma :
              ma[i].val = IF i < w THEN NaN
                          ELSE Num(SeqSum(SubSeq(v, i - w + 1, i)), w)

C9_MovingAverages ==
    EnhancedReturned =>
        /\ MovingAverageAsSpecified(ret.val.moving_average_3m, 3)
        /\ MovingAverageAsSpecified(ret.val.moving_average_6m, 6)

C9_Witness ==
    /\ EnhancedReturned
    /\ Len(ret.val.moving_average_6m) >= 7
    /\ IsNaN(ret.val.moving_average_3m[2].val)
    /\ IsNum(ret.val.moving_average_3m[3].val)
    /\ IsNaN(ret.val.moving_average_6m[5].val)
    /\ IsNum(ret.val.moving_average_6m[6].val)
    /\ ret.val.moving_average_6m[7].val # ret.val.moving_average_6m[6].val

----------------------------------------------------------------------------
(* C10: when one of the two columns of a pair has zero variance,           *)
(* analyze_correlations returns exactly 0.0 for the pair, and every        *)
(* coefficient it returns lies in [-1.0, 1.0].                             *)

SourceColumn(col) == [i \in DOMAIN source.rows |-> source.rows[i][col]]

CorrelationPairs ==
    {<<"spend_quantity", SpendCol, QtyCol>>,
     <<"spend_leadtime", SpendCol, LeadCol>>,
     <<"quantity_leadtime", QtyCol, LeadCol>>}

(* |v| <= 1, for a rational or a signed square root of one.                *)
InUnitRange(v) == v.k \in {"num", "sqrt"} /\ Abs(v.n) <= v.d

C10_DegenerateCorrelationIsZero ==
    (ret.op = "analyze_correlations" /\ source.rows # <<>>) =>
        \A p \in CorrelationPairs :
            /\ (ConstantSeries(SourceColumn(p[2])) \/ ConstantSeries(SourceColumn(p[3])))
                   => ret.val[p[1]] = Zero
            /\ InUnitRange(ret.val[p[1]])

----------------------------------------------------------------------------
(* C11: when the upload lacks a required column, the run fails with a      *)
(* message that lists exactly the absent columns, and no result, not even  *)
(* a partial one, is produced.                                             *)

MissingColumns == RequiredColumns \ source.cols

C11_MissingColumnsListed ==
    (ret.op = "main" /\ MissingColumns # {}) =>
        /\ ret.val.outcome = "missing_columns"
        /\ ret.val.listed = MissingColumns
        /\ ret.val.results = None
        /\ ret.val.display.tabs = {}

(* What the code does provide: the run stops before the analysis.          *)
C11_NoResultWithoutColumns ==
    (ret.op = "main" /\ MissingColumns # {}) =>
        /\ ret.val.outcome = "missing_columns"
        /\ ret.val.results = None
        /\ ret.val.display.tabs = {}
        /\ analyzers[1] = None

----------------------------------------------------------------------------
(* C12: the thresholds an analyzer uses are those the configuration held   *)
(* when it was constructed: while the analyzer lives, no step, a pass of   *)
(* the settings editor included, changes the values it reads.              *)

ReadValues(a) ==
    <<MinMonths(Cfg(a)), AnomalyWindow(Cfg(a)), AnomalyThreshold(Cfg(a))>>

C12_ConstructionSnapshot ==
    [][\A a \in AnalyzerIds :
           (analyzers[a] # None /\ analyzers'[a] = analyzers[a])
               => ReadValues(a)' = ReadValues(a)]_vars

(* What the code does provide: a call of an analyzer writes no setting.    *)
C12_AnalyzerNeverWritesConfig ==
    [][(ret' # ret \/ analyzers' # analyzers)
           => (config' = config /\ config_file' = config_file)]_vars

----------------------------------------------------------------------------
(* C13: every period-keyed series of the result lists its keys in strictly *)
(* ascending chronological order, without a duplicate key, whatever the    *)
(* order of the input rows.                                                *)

StrictlyAscending(keys) ==
    \A i \in DOMAIN keys : \A j \in DOMAIN keys : i < j => LexLess(keys[i], keys[j])

PeriodKeyedSeries(result) ==
    <<result.yearly_growth, result.quarterly_growth, result.monthly_growth,
      result.raw_monthly_spend, result.moving_average_3m, result.moving_average_6m,
      result.purchase_patterns.monthly_aov,
      result.purchase_patterns.purchase_frequency,
      result.purchase_patterns.basket_size>>

Chronological(rows) ==
    \A i \in DOMAIN rows : \A j \in DOMAIN rows :
        i < j => ~LexLess(rows[j][DateCol], rows[i][DateCol])

C13_PeriodKeysAscending ==
    EnhancedReturned =>
        \A s \in DOMAIN PeriodKeyedSeries(ret.val) :
            StrictlyAscending(Keys(PeriodKeyedSeries(ret.val)[s]))

C13_Witness ==
    /\ EnhancedReturned
    /\ ret.inj = {}
    /\ ~Chronological(source.rows)
    /\ Len(ret.val.yearly_growth) = 2
    /\ Len(ret.val.raw_monthly_spend) = 2
    /\ Len(ret.val.purchase_patterns.monthly_aov) = 2
    /\ StrictlyAscending(Keys(ret.val.raw_monthly_spend))

----------------------------------------------------------------------------
(* C14: peak_months holds the K months of largest spend, K the configured  *)
(* top-peak count (5 without settings) or the number of months if smaller, *)
(* by spend descending; of two months with equal spend the earlier ranks   *)
(* first and is the one kept at the cut-off.                               *)

RanksBefore(p, q) == p.val > q.val \/ (p.val = q.val /\ LexLess(p.key, q.key))

MonthTotals ==
    LET ps == Periods("month")
        totals == PeriodTotals("month")
    IN {[key |-> ps[i], val |-> totals[i]] : i \in DOMAIN ps}

TopMonths(peaks, k) ==
    LET months == MonthTotals
    IN /\ Len(peaks) = Min(k, Cardinality(months))
       /\ Range(peaks) \subseteq months
       /\ \A i \in DOMAIN peaks : \A j \in DOMAIN peaks :
              i < j => RanksBefore(peaks[i], peaks[j])
       /\ \A m \in months \ Range(peaks) :
              \A i \in DOMAIN peaks : RanksBefore(peaks[i], m)

ConfiguredPeakCount ==
    IF ReadsConfig THEN config.analysis.top_peak_months ELSE TopPeakMonths

C14_PeakMonthsConfiguredCount ==
    EnhancedReturned => TopMonths(ret.val.peak_months, ConfiguredPeakCount)

(* What the code does provide: the five months of largest spend, the       *)
(* earlier of two equal months first.                                      *)
C14_PeakMonthsTopFive ==
    EnhancedReturned => TopMonths(ret.val.peak_months, TopPeakMonths)

C14_TieAtCutOff ==
    /\ EnhancedReturned
    /\ Len(ret.val.raw_monthly_spend) = MaxPeakMonths
    /\ \E m \in MonthTotals \ Range(ret.val.peak_months) :
           m.val = ret.val.peak_months[TopPeakMonths].val

----------------------------------------------------------------------------
(* C16: when the decomposition is performed and the seasonal and the       *)
(* residual component both have zero variance, seasonal_strength is 0;     *)
(* otherwise it is var(seasonal) / (var(seasonal) + var(residual)) * 100.  *)

SampleVariance(vs) ==
    LET d == SelectSeq(vs, IsNum)
        n == Len(d)
        mean == FDiv(FSeqSum(d), FromInt(n))
        sq == [i \in 1..n |-> FMul(FSub(d[i], mean), FSub(d[i], mean))]
    IN FDiv(FSeqSum(sq), FromInt(n - 1))

Decomposed == ret.op = "analyze_seasonality" /\ ret.val.has_seasonality

C16_ZeroVarianceIsZeroStrength ==
    Decomposed =>
        LET svar == SampleVariance(Vals(ret.val.components.seasonal))
            rvar == SampleVariance(Vals(ret.val.components.residual))
        IN IF svar = Zero /\ rvar = Zero
           THEN ret.val.seasonal_strength = Zero
           ELSE ret.val.seasonal_strength
                    = Round2(FMul(FDiv(svar, FAdd(svar, rvar)), FromInt(100)))

(* What the code does provide: the ratio rounded to two decimals, which is *)
(* not-a-number when both variances are zero.                              *)
C16_StrengthIsRoundedRatio ==
    Decomposed =>
        LET svar == SampleVariance(Vals(ret.val.components.seasonal))
            rvar == SampleVariance(Vals(ret.val.components.residual))
        IN /\ ret.val.seasonal_strength
                  = Round2(FMul(FDiv(svar, FAdd(svar, rvar)), FromInt(100)))
           /\ (svar = Zero /\ rvar = Zero) => ret.val.seasonal_strength = NaN

C16_PartialStrength ==
    /\ Decomposed
    /\ FGt(ret.val.seasonal_strength, Zero)
    /\ FGt(FromInt(100), ret.val.seasonal_strength)

----------------------------------------------------------------------------
(* C17: a correlation is labelled 'Strong', and gets its insight line,     *)
(* exactly when its magnitude exceeds the configured                       *)
(* correlation_strength_threshold; the coefficients of the result are the  *)
(* raw ones.                                                               *)

(* |v| > t for a coefficient that is a rational or a signed square root.   *)
MagnitudeAbove(v, t) ==
    /\ v.k \in {"num", "sqrt"}
    /\ IF v.k = "num" THEN Abs(v.n) * t.d > t.n * v.d
       ELSE Abs(v.n) * t.d * t.d > t.n * t.n * v.d

PairsAbove(t) ==
    {p \in DOMAIN ret.val.results.correlations :
        MagnitudeAbove(ret.val.results.correlations[p], t)}

TabsDisplayed ==
    /\ ret.op = "main"
    /\ ret.val.outcome = "displayed"
    /\ "insights" \in ret.val.display.tabs

C17_StrongAboveConfiguredThreshold ==
    TabsDisplayed =>
        /\ ret.val.display.strong
               = PairsAbove(config.analysis.correlation_strength_threshold)
        /\ ret.val.display.insights
               = PairsAbove(config.analysis.correlation_strength_threshold)

(* What the code does provide: the labels follow the literal 0.7, and the  *)
(* coefficients are those of the uploaded columns.                         *)
C17_StrongAboveLiteral ==
    TabsDisplayed =>
        /\ ret.val.display.strong = PairsAbove(Num(7, 10))
        /\ ret.val.display.insights = PairsAbove(Num(7, 10))
        /\ ret.val.results.correlations = AnalyzeCorrelations(tables[uploaded], {})

C17_BetweenThresholds ==
    /\ TabsDisplayed
    /\ config.analysis.correlation_strength_threshold = Num(1, 2)
    /\ PairsAbove(Num(1, 2)) # PairsAbove(Num(7, 10))
    /\ PairsAbove(Num(7, 10)) # {}

----------------------------------------------------------------------------
(* C20: when the seasonality block of a result is in its unavailable shape *)
(* (has_seasonality false, with a message), the Patterns tab and           *)
(* prepare_analysis_for_excel complete without error and the views and     *)
(* sheets of every other block are still produced.                         *)

SeasonalityUnavailable(results) ==
    /\ results # None
    /\ ~results.seasonality_metrics.has_seasonality
    /\ "message" \in DOMAIN results.seasonality_metrics

OtherSheets == {SheetNames[i] : i \in 1..(Len(SheetNames) - 1)}

SheetsProduced(excel) ==
    /\ excel # None
    /\ excel # Raised
    /\ OtherSheets \subseteq DOMAIN excel.sheets

C20_UnavailableSeasonalityDisplayed ==
    /\ (ret.op = "main" /\ SeasonalityUnavailable(ret.val.results)) =>
           /\ ~ret.val.display.error
           /\ ret.val.display.tabs = Range(Tabs)
           /\ SheetsProduced(ret.val.display.excel)
    /\ (ret.op = "prepare_analysis_for_excel"
            /\ SeasonalityUnavailable(ret.val.results)) =>
           SheetsProduced(ret.val.excel)

(* What the code does provide: with a decomposed seasonality block the     *)
(* four tabs and the eight sheets are produced.                            *)
C20_AvailableSeasonalityDisplayed ==
    /\ (ret.op = "main" /\ ret.val.results # None
            /\ ret.val.results.seasonality_metrics.has_seasonality) =>
           /\ ~ret.val.display.error
           /\ ret.val.display.tabs = Range(Tabs)
           /\ SheetsProduced(ret.val.display.excel)
           /\ DOMAIN ret.val.display.excel.sheets = Range(SheetNames)
    /\ (ret.op = "prepare_analysis_for_excel"
            /\ ret.val.results.seasonality_metrics.has_seasonality) =>
           DOMAIN ret.val.excel.sheets = Range(SheetNames)

----------------------------------------------------------------------------
(* C18: the trend direction is 'Upward' exactly when the mean of the       *)
(* defined month-over-month changes is positive and 'Downward' otherwise,  *)
(* the strength is the absolute value of that mean as a percentage, and    *)
(* the missing entries (the first change, the first two entries of the     *)
(* acceleration series) are left out of the means, not counted as zero.    *)

ChangeFrom(prev, cur) == FSub(FDiv(cur, prev), FromInt(1))

(* The changes from the second month on; the first month has none.         *)
MonthlyChanges ==
    LET t == PeriodTotals("month")
    IN [i \in 1..(Len(t) - 1) |-> ChangeFrom(FromInt(t[i]), FromInt(t[i + 1]))]

(* The acceleration entries from the third month on.                       *)
ChangesOfChanges(c) == [i \in 1..(Len(c) - 1) |-> ChangeFrom(c[i], c[i + 1])]

DefinedMean(vs) ==
    LET d == SelectSeq(vs, LAMBDA v : ~IsNaN(v))
    IN IF d = <<>> THEN NaN ELSE FDiv(FSeqSum(d), FromInt(Len(d)))

----------------------------------------------------------------------------
(* C19: loading settings in which any subset of the fields, any whole      *)
(* section or the whole file is absent gives a Config whose absent fields  *)
(* hold the documented defaults and whose present fields hold the          *)
(* persisted values; loading never fails for lack of a field.              *)

DocumentedDefaults ==
    [min_months_for_seasonality |-> 12, anomaly_detection_window |-> 7,
     anomaly_std_threshold |-> Num(2, 1),
     correlation_strength_threshold |-> Num(7, 10),
     moving_average_windows |-> <<3, 6>>, top_peak_months |-> 5]

(* The fields of the analysis section the file holds.                      *)
PersistedFields ==
    IF IsYamlMap(config_file) /\ "analysis" \in DOMAIN config_file.map
           /\ IsYamlMap(config_file.map["analysis"])
    THEN SectionValues(config_file.map["analysis"].map)
    ELSE <<>>

LoadedAsPersistedOrDefault ==
    /\ ret.val # Raised
    /\ config = ret.val
    /\ \A f \in DOMAIN DocumentedDefaults :
           ret.val.analysis[f] = IF f \in DOMAIN PersistedFields THEN PersistedFields[f]
                                 ELSE DocumentedDefaults[f]

C19_AbsentFieldsTakeDefaults ==
    ret.op = "ConfigManager" => LoadedAsPersistedOrDefault

(* What the code does provide: the same, for a file that is a mapping      *)
(* whose sections are mappings.                                            *)
SectionsAreMappings ==
    /\ IsYamlMap(config_file)
    /\ \A s \in DOMAIN config_file.map : IsYamlMap(config_file.map[s])

C19_MappingsLoadWithDefaults ==
    (ret.op = "ConfigManager" /\ SectionsAreMappings) => LoadedAsPersistedOrDefault

C19_PartialSectionLoaded ==
    /\ ret.op = "ConfigManager"
    /\ ret.val # Raised
    /\ Cardinality(DOMAIN PersistedFields) = 3
    /\ "visualization" \notin DOMAIN config_file.map

----------------------------------------------------------------------------
(* C15: for an input covering 24 consecutive calendar months with the same *)
(* spend on every day, the yearly growth series is [missing, 0.0].         *)

SourceDates == {source.rows[i][DateCol] : i \in DOMAIN source.rows}

MonthIndex(date) == date[1] * 12 + (date[2] - 1)

(* n consecutive calendar months, every day of each with one transaction   *)
(* of the same spend.                                                      *)
ConstantDailySpan(n) ==
    LET dates == SourceDates
        months == {MonthIndex(date) : date \in dates}
    IN /\ source.rows # <<>>
       /\ Cardinality(dates) = Len(source.rows)
       /\ \A i \in DOMAIN source.rows :
              source.rows[i][SpendCol] = source.rows[1][SpendCol]
       /\ Cardinality(months) = n
       /\ \A a \in months : \A b \in months : a - b < n
       /\ \A date \in dates :
              \A d \in 1..DaysInMonth(date[1], date[2]) :
                  <<date[1], date[2], d>> \in dates

TwoYearsOfConstantSpend ==
    EnhancedReturned /\ ConstantDailySpan(SpanMonths)

DaysCovered(year) == Cardinality({date \in SourceDates : date[1] = year})

----------------------------------------------------------------------------
(* C21: when the optional lead-time column is absent, a result is still    *)
(* returned and only the lead-time values are degraded: spend_leadtime and *)
(* quantity_leadtime take the fallback value, while spend_quantity is the  *)
(* correlation of the spend and quantity columns.                          *)

WithoutLeadTime ==
    /\ LeadCol \notin source.cols
    /\ (InputColumns \ {LeadCol}) \subseteq source.cols
    /\ ret.inj = {}

(* The correlations of the latest call, of the method or within the run.   *)
LatestCorrelations ==
    IF ret.op = "analyze_correlations" THEN ret.val ELSE ret.val.correlations

CorrelationsReturned ==
    \/ ret.op = "analyze_correlations"
    \/ EnhancedReturned

Varies(col) == ~ConstantSeries(SourceColumn(col))

C21_SpendQuantityKeptWithoutLeadTime ==
    (ret.op \in {"analyze_correlations", "enhanced_time_analysis"} /\ WithoutLeadTime) =>
        /\ CorrelationsReturned
        /\ LatestCorrelations.spend_leadtime = Zero
        /\ LatestCorrelations.quantity_leadtime = Zero
        /\ (Varies(SpendCol) /\ Varies(QtyCol)) =>
               LatestCorrelations.spend_quantity
                   = PearsonCorr(SourceColumn(SpendCol), SourceColumn(QtyCol))

(* What the code does provide: a result is returned, with the fallback in  *)
(* all three places.                                                       *)
C21_AllFallbackWithoutLeadTime ==
    (ret.op \in {"analyze_correlations", "enhanced_time_analysis"} /\ WithoutLeadTime) =>
        /\ CorrelationsReturned
        /\ LatestCorrelations = CorrelationFallback

C21_CorrelatedWithoutLeadTime ==
    /\ EnhancedReturned
    /\ WithoutLeadTime
    /\ Varies(SpendCol)
    /\ Varies(QtyCol)
    /\ LatestCorrelations = CorrelationFallback

----------------------------------------------------------------------------
(* C22: across the passes of the settings editor the settings file changes *)
(* only in a pass in which Save Settings is pressed, and then holds the    *)
(* in-memory configuration of that moment; a pass without Save changes the *)
(* in-memory configuration only.                                           *)

FileHoldsConfig(file, cfg) ==
    /\ IsYamlMap(file)
    /\ DOMAIN file.map = Sections
    /\ \A s \in Sections :
           IsYamlMap(file.map[s]) /\ SectionValues(file.map[s].map) = cfg[s]

WidgetValuesHeld(cfg, w) ==
    /\ cfg.analysis.min_months_for_seasonality = w.min_months
    /\ cfg.analysis.anomaly_std_threshold = w.threshold
    /\ cfg.analysis.correlation_strength_threshold = w.correlation
    /\ cfg.visualization.chart_template = w.template

C22_FileChangesOnlyOnSave ==
    [][/\ config_file' # config_file => FileHoldsConfig(config_file', config')
       /\ \A w \in EditorWidgets :
              show_config_editor(w) =>
                  /\ WidgetValuesHeld(config', w)
                  /\ IF w.save THEN FileHoldsConfig(config_file', config')
                     ELSE config_file' = config_file]_vars

(* Saved edits followed by an edit that was not saved.                     *)
C22_Witness ==
    /\ FileHoldsConfig(config_file, [config EXCEPT
           !.analysis.min_months_for_seasonality = 6])
    /\ config.analysis.min_months_for_seasonality = DefaultMinMonths
    /\ ~FileHoldsConfig(config_file, DefaultConfig)

----------------------------------------------------------------------------
(* Config objects written to the settings file and read back: settings of  *)
(* all four sections as the editor widgets can leave them, among them      *)
(* texts that, unquoted, would be read as a number, a boolean or nothing.  *)

SavedConfigs ==
    {[DefaultConfig EXCEPT
          !.analysis.min_months_for_seasonality = min_months,
          !.analysis.anomaly_std_threshold = threshold,
          !.visualization.show_chart_legends = legends,
          !.export.default_filename_prefix = prefix,
          !.export.export_formats = formats,
          !.app.app_title = title] :
        min_months \in {6, DefaultMinMonths},
        threshold \in {FromInt(DefaultThresholdWhole), Num(5, 2)},
        legends \in BOOLEAN,
        prefix \in {"time_analysis", "12", ""},
        formats \in {<<"excel", "csv", "json">>, <<"csv">>},
        title \in {"Time Analysis Dashboard", "true", "2.0"}}

(* The settings file is the one written at import; the process holds one   *)
(* of the Config objects.                                                  *)
InitSaved ==
    /\ tables = <<MkTable(<<>>, InputColumns)>>
    /\ uploaded = 1
    /\ source = MkTable(<<>>, InputColumns)
    /\ config \in SavedConfigs
    /\ config_file = SaveToYaml(DefaultConfig)
    /\ analyzers = [a \in AnalyzerIds |-> None]
    /\ ret = NoRet
    /\ decompose_calls = 0

(* The Config object returned by the latest load_from_yaml.                *)
LoadedConfig ==
    IF ret.op = "load_from_yaml" /\ ret.val # Raised THEN ret.val ELSE None

(* Config.save_to_yaml on the process-wide object (ConfigManager.          *)
(* save_config) or on the object the latest load returned.                 *)
save_to_yaml(object) ==
    LET self == IF object = "config" THEN config ELSE LoadedConfig
    IN /\ self # None
       /\ config_file' = SaveToYaml(self)
       /\ ret' = [op |-> "save_to_yaml", self |-> 0, inj |-> {},
                  val |-> [config |-> self, object |-> object]]
       /\ UNCHANGED <<tables, uploaded, source, config, analyzers, decompose_calls>>

(* Config.load_from_yaml(config_path), as in ConfigManager.__init__.       *)
load_from_yaml ==
    /\ ret' = [op |-> "load_from_yaml", self |-> 0, inj |-> {},
               val |-> LoadFromYaml(config_file)]
    /\ UNCHANGED <<tables, uploaded, source, config, config_file, analyzers,
                   decompose_calls>>

NextSaved ==
    \/ \E object \in {"config", "loaded"} : save_to_yaml(object)
    \/ load_from_yaml

SpecSaved == InitSaved /\ [][NextSaved]_vars

(* C23: the Config loaded from the file a save has written equals the one  *)
(* saved, field by field in all four sections, and saving the loaded       *)
(* Config again leaves the file as the first save wrote it.                *)

EqualFieldByField(a, b) ==
    \A s \in Sections : \A f \in DOMAIN DefaultConfig[s] : a[s][f] = b[s][f]

C23_SaveLoadRoundTrip ==
    [][/\ (ret.op = "save_to_yaml" /\ load_from_yaml) =>
              /\ ret'.val # Raised
              /\ DOMAIN ret'.val = Sections
              /\ EqualFieldByField(ret'.val, ret.val.config)
       /\ (LoadedConfig # None /\ save_to_yaml("loaded")) =>
              config_file' = config_file]_vars

(* A Config with edits in every section, saved, loaded, and saved again:   *)
(* the title and the prefix are quoted in the file, the icon is escaped.   *)
C23_Witness ==
    /\ ret.op = "save_to_yaml"
    /\ ret.val.object = "loaded"
    /\ ret.val.config = config
    /\ config.analysis.min_months_for_seasonality = 6
    /\ ~config.visualization.show_chart_legends
    /\ config.export.default_filename_prefix = "12"
    /\ config.export.export_formats = <<"csv">>
    /\ config.app.app_title = "true"
    /\ config_file.map["app"].map["app_title"].style = "single"
    /\ config_file.map["app"].map["app_icon"].style = "double"
    /\ config_file.map["app"].map["app_icon"].text.chars # config.app.app_icon

====
